---------------------------- MODULE Spec2Model ----------------------------
(***************************************************************************)
(* A model of the CHM extraction pipeline of kedster/chmconverter:         *)
(* class CHMJsonExtractor (src/tests/chmextractor.module.js).              *)
(*                                                                         *)
(* Text is modelled as JavaScript models it: a string is a sequence of     *)
(* UTF-16 code units (integers), a buffer is a sequence of bytes           *)
(* (0..255).  Regular expressions are translated construct by construct    *)
(* (\b, \s, \w, ".", greedy runs, the i flag, leftmost match).             *)
(***************************************************************************)
EXTENDS Integers, Sequences, FiniteSets, TLC

VARIABLES
    jsonData,         \* this.jsonData: Null or Some(the list of records)
    status,           \* #status element: [msg, type] set by showStatus
    jsonPreview,      \* #jsonPreview element: Null (hidden) or Some(the list shown)
    downloadButtons,  \* #downloadButtons style.display = 'block'
    reads,            \* loadFile calls suspended at "await file.arrayBuffer()"
    called,           \* the methods the last handler called: <<method, e, file>>
    loaded,           \* per extractor, Some(the file its jsonData was extracted from)
    download,         \* the last handler, if a download button's: what it did
    selected,         \* Some(<<e, f>>) of the latest loadFile that started a read
    converter,        \* the CHMConverter of script.js and the elements it shows
    input,            \* argument of the function under test
    output,           \* its result
    pc                \* position of the function under test

vars == <<jsonData, status, jsonPreview, downloadButtons, reads, called,
          loaded, download, selected, converter, input, output, pc>>

\* null, and a value that is present: a sequence of no or of one element.
Null == <<>>

Some(v) == <<v>>

Value(o) == o[1]

-----------------------------------------------------------------------------
(* Characters.  ECMAScript WhiteSpace and LineTerminator code units: the   *)
(* class \s of a RegExp and the set String.prototype.trim strips.          *)

IsSpace(c) ==
    c \in {9, 10, 11, 12, 13, 32, 160, 5760, 8232, 8233, 8239, 8287, 12288, 65279}
    \/ c \in 8192..8202

\* "." matches every code unit but the line terminators \n \r U+2028 U+2029.
IsLineTerminator(c) == c \in {10, 13, 8232, 8233}

\* \w (and [\w\d], [a-zA-Z0-9_]) without the u flag: ASCII only.
IsWord(c) == c \in 48..57 \/ c \in 65..90 \/ c = 95 \/ c \in 97..122

\* [A-Z] under the i flag: canonicalisation folds a-z onto A-Z.
IsUpperIgnoreCase(c) == c \in 65..90 \/ c \in 97..122

\* Canonicalize(ch) of the i flag for ASCII: toUpperCase.
ToUpper(c) == IF c \in 97..122 THEN c - 32 ELSE c

ToLower(c) == IF c \in 65..90 THEN c + 32 ELSE c

Min(S) == CHOOSE x \in S : \A y \in S : x <= y

\* First index >= from whose code unit is not in the class, or Len(s)+1.
SkipSpace(s, from) ==
    Min({j \in from..Len(s) : ~IsSpace(s[j])} \cup {Len(s) + 1})

SkipWord(s, from) ==
    Min({j \in from..Len(s) : ~IsWord(s[j])} \cup {Len(s) + 1})

SkipDot(s, from) ==
    Min({j \in from..Len(s) : IsLineTerminator(s[j])} \cup {Len(s) + 1})

\* String.prototype.trim
trim(s) ==
    LET keep == {j \in 1..Len(s) : ~IsSpace(s[j])}
    IN  IF keep = {} THEN <<>>
        ELSE SubSeq(s, Min(keep), CHOOSE x \in keep : \A y \in keep : y <= x)

\* String.prototype.split('\n'): the k-th line lies between the (k-1)-th and
\* the k-th newline; a text with m newlines has m+1 lines.
split(s) ==
    LET nl    == {j \in 1..Len(s) : s[j] = 10}
        m     == Cardinality(nl)
        at(k) == IF k = 0 THEN 0
                 ELSE IF k = m + 1 THEN Len(s) + 1
                 ELSE CHOOSE x \in nl : Cardinality({y \in nl : y < x}) = k - 1
    IN  [k \in 1..(m + 1) |-> SubSeq(s, at(k - 1) + 1, at(k) - 1)]

-----------------------------------------------------------------------------
(* new TextDecoder('utf-8').decode(bytes): the WHATWG UTF-8 decoder, not    *)
(* fatal, BOM stripped.  A lead byte takes the continuation bytes that its  *)
(* ranges accept; a complete sequence yields its code point (two code units *)
(* above U+FFFF), every other maximal subpart yields U+FFFD.                *)

IsLead(b) == b \in 194..244

Need(b) == IF b \in 194..223 THEN 1 ELSE IF b \in 224..239 THEN 2 ELSE 3

Lower2(b) == IF b = 224 THEN 160 ELSE IF b = 240 THEN 144 ELSE 128

Upper2(b) == IF b = 237 THEN 159 ELSE IF b = 244 THEN 143 ELSE 191

\* The j-th byte after the lead byte at i continues that lead's sequence.
Accepts(buf, i, j) ==
    /\ i + j <= Len(buf)
    /\ j <= Need(buf[i])
    /\ IF j = 1 THEN buf[i + 1] \in Lower2(buf[i])..Upper2(buf[i])
                ELSE buf[i + j] \in 128..191

\* Number of continuation bytes the lead byte at i consumes.
Taken(buf, i) ==
    IF ~Accepts(buf, i, 1) THEN 0
    ELSE IF ~Accepts(buf, i, 2) THEN 1
    ELSE IF ~Accepts(buf, i, 3) THEN 2 ELSE 3

CodePoint(buf, i) ==
    LET b == buf[i]
    IN  IF Need(b) = 1 THEN (b - 192) * 64 + (buf[i + 1] - 128)
        ELSE IF Need(b) = 2
        THEN (b - 224) * 4096 + (buf[i + 1] - 128) * 64 + (buf[i + 2] - 128)
        ELSE (b - 240) * 262144 + (buf[i + 1] - 128) * 4096
             + (buf[i + 2] - 128) * 64 + (buf[i + 3] - 128)

\* The byte at i was consumed by the lead byte j places before it.
ConsumedBy(buf, i, j) ==
    i - j >= 1 /\ IsLead(buf[i - j]) /\ Taken(buf, i - j) >= j

\* The code unit the decoder emits when it reaches the byte at i; -1: none.
\* The low surrogate of a four-byte sequence is placed at its second byte.
Emit(buf, i) ==
    LET b == buf[i]
    IN  IF b < 128 THEN b
        ELSE IF ConsumedBy(buf, i, 1)
        THEN IF Need(buf[i - 1]) = 3 /\ Taken(buf, i - 1) = 3
             THEN 56320 + ((CodePoint(buf, i - 1) - 65536) % 1024)
             ELSE -1
        ELSE IF ConsumedBy(buf, i, 2) \/ ConsumedBy(buf, i, 3) THEN -1
        ELSE IF IsLead(b) /\ Taken(buf, i) = Need(b)
        THEN IF Need(b) = 3
             THEN 55296 + ((CodePoint(buf, i) - 65536) \div 1024)
             ELSE CodePoint(buf, i)
        ELSE 65533

Emitted(u) == u >= 0

decode(bytes) ==
    LET text == SelectSeq([i \in 1..Len(bytes) |-> Emit(bytes, i)], Emitted)
    IN  IF Len(bytes) >= 3 /\ SubSeq(bytes, 1, 3) = <<239, 187, 191>>
        THEN Tail(text) ELSE text

-----------------------------------------------------------------------------
(* The regular expressions of CHMJsonExtractor.                             *)

\* "Class" under the i flag at position p of s.
KeywordAt(s, p) ==
    /\ p + 4 <= Len(s)
    /\ ToUpper(s[p]) = 67
    /\ ToUpper(s[p + 1]) = 76
    /\ ToUpper(s[p + 2]) = 65
    /\ ToUpper(s[p + 3]) = 83
    /\ ToUpper(s[p + 4]) = 83

\* \b before a word character at p.
WordBoundaryBefore(s, p) == p = 1 \/ ~IsWord(s[p - 1])

\* /Class\s+[A-Z][a-zA-Z0-9_]+\s{2,}/i matches at p.  The greedy runs cannot
\* give characters back: what follows each run is of the complementary class.
RelevantAt(s, p) ==
    /\ KeywordAt(s, p)
    /\ LET q == SkipSpace(s, p + 5)
       IN  /\ q > p + 5
           /\ q <= Len(s)
           /\ IsUpperIgnoreCase(s[q])
           /\ LET r == SkipWord(s, q + 1)
              IN  /\ r > q + 1
                  /\ r + 1 <= Len(s)
                  /\ IsSpace(s[r])
                  /\ IsSpace(s[r + 1])

\* Mutant: the pattern starts with \b.
containsRelevantText_WordBoundary(text) ==
    \E p \in 1..Len(text) : RelevantAt(text, p) /\ WordBoundaryBefore(text, p)

\* containsRelevantText(text)
containsRelevantText(text) == \E p \in 1..Len(text) : RelevantAt(text, p)

\* /\bClass\s+[A-Z]/i matches at p: the test that ends a description.
NewHeaderAt(s, p) ==
    /\ KeywordAt(s, p)
    /\ WordBoundaryBefore(s, p)
    /\ LET q == SkipSpace(s, p + 5)
       IN  q > p + 5 /\ q <= Len(s) /\ IsUpperIgnoreCase(s[q])

TestNewHeader(line) == \E p \in 1..Len(line) : NewHeaderAt(line, p)

\* /^\s*$/
TestBlank(line) == \A j \in 1..Len(line) : IsSpace(line[j])

\* classPattern = /\bClass\s+([A-Z][\w\d]*)\s+(.*)/i matches at p.
ClassPatternAt(s, p) ==
    /\ NewHeaderAt(s, p)
    /\ LET r == SkipWord(s, SkipSpace(s, p + 5) + 1)
       IN  r <= Len(s) /\ IsSpace(s[r])

\* line.match(classPattern): Null, or the groups of the leftmost match.
matchClassPattern(line) ==
    LET at == {p \in 1..Len(line) : ClassPatternAt(line, p)}
    IN  IF at = {} THEN Null
        ELSE LET p == Min(at)
                 q == SkipSpace(line, p + 5)
                 r == SkipWord(line, q + 1)
                 t == SkipSpace(line, r)
                 u == SkipDot(line, t)
             IN  Some(<< SubSeq(line, q, r - 1), SubSeq(line, t, u - 1) >>)

-----------------------------------------------------------------------------
(* toStructuredJSON                                                         *)

\* Mutant: the continuation line is appended as it is, not trimmed.
RECURSIVE continuation_NoTrim(_, _, _)
continuation_NoTrim(lines, i, description) ==
    IF /\ i + 1 <= Len(lines)
       /\ ~TestNewHeader(lines[i + 1])
       /\ ~TestBlank(lines[i + 1])
    THEN continuation_NoTrim(lines, i + 1, description \o <<32>> \o lines[i + 1])
    ELSE [i |-> i, description |-> description]

\* Mutant: a blank line does not end the description.
RECURSIVE continuation_NoBlankTest(_, _, _)
continuation_NoBlankTest(lines, i, description) ==
    IF /\ i + 1 <= Len(lines)
       /\ ~TestNewHeader(lines[i + 1])
    THEN continuation_NoBlankTest(lines, i + 1,
                                  description \o <<32>> \o trim(lines[i + 1]))
    ELSE [i |-> i, description |-> description]

\* Mutant: the header line that ends a description is appended to it as well.
RECURSIVE continuation_HeaderTwice(_, _, _)
continuation_HeaderTwice(lines, i, description) ==
    IF /\ i + 1 <= Len(lines)
       /\ ~TestBlank(lines[i + 1])
    THEN IF TestNewHeader(lines[i + 1])
         THEN [i |-> i,
               description |-> description \o <<32>> \o trim(lines[i + 1])]
         ELSE continuation_HeaderTwice(lines, i + 1,
                  description \o <<32>> \o trim(lines[i + 1]))
    ELSE [i |-> i, description |-> description]

\* The while loop: appends the lines that follow line i until a new header,
\* a blank line or the end; yields the last line consumed and the text.
RECURSIVE continuation(_, _, _)
continuation(lines, i, description) ==
    IF /\ i + 1 <= Len(lines)
       /\ ~TestNewHeader(lines[i + 1])
       /\ ~TestBlank(lines[i + 1])
    THEN continuation(lines, i + 1, description \o <<32>> \o trim(lines[i + 1]))
    ELSE [i |-> i, description |-> description]

\* Mutant: a new record is put in front of the records pushed so far.
RECURSIVE forLines_Unshift(_, _, _)
forLines_Unshift(lines, i, entries) ==
    IF i > Len(lines) THEN entries
    ELSE LET found == matchClassPattern(lines[i])
         IN  IF found = Null THEN forLines_Unshift(lines, i + 1, entries)
             ELSE LET match == Value(found)
                      c == continuation(lines, i, trim(match[2]))
                  IN  forLines_Unshift(lines, c.i + 1,
                          << [type |-> "Class",
                              name |-> trim(match[1]),
                              description |-> c.description] >> \o entries)

\* The for loop from line i on, entries being the records pushed so far.
RECURSIVE forLines(_, _, _)
forLines(lines, i, entries) ==
    IF i > Len(lines) THEN entries
    ELSE LET found == matchClassPattern(lines[i])
         IN  IF found = Null THEN forLines(lines, i + 1, entries)
             ELSE LET match == Value(found)
                      c == continuation(lines, i, trim(match[2]))
                  IN  forLines(lines, c.i + 1,
                               Append(entries, [type |-> "Class",
                                                name |-> trim(match[1]),
                                                description |-> c.description]))

\* toStructuredJSON(rawText)
toStructuredJSON(rawText) == forLines(split(rawText), 1, <<>>)

\* A call toStructuredJSON(rawText) with a JavaScript value, Null or
\* Some(a string): rawText.split of null throws a TypeError before anything
\* else is done.
toStructuredJSONCall(rawText) ==
    IF rawText = Null
    THEN [completion |-> "TypeError", value |-> <<>>]
    ELSE [completion |-> "normal", value |-> toStructuredJSON(Value(rawText))]

-----------------------------------------------------------------------------
(* validateCHM and extractText                                              *)

\* Mutant: only the first three bytes of the signature are compared.
validateCHM_ThreeBytes(buffer) ==
    IF Len(buffer) < 3 THEN FALSE
    ELSE decode(SubSeq(buffer, 1, 3)) = <<73, 84, 83>>

\* validateCHM(buffer)
validateCHM(buffer) ==
    IF Len(buffer) < 4 THEN FALSE
    ELSE decode(SubSeq(buffer, 1, 4)) = <<73, 84, 83, 70>>

step == 16384

\* blocks.join('\n')
RECURSIVE join(_)
join(blocks) ==
    IF blocks = <<>> THEN <<>>
    ELSE IF Len(blocks) = 1 THEN blocks[1]
    ELSE blocks[1] \o <<10>> \o join(Tail(blocks))

\* Mutant: every window's text is kept, the filter is not asked.
RECURSIVE extractLoop_KeepAll(_, _, _)
extractLoop_KeepAll(buffer, i, blocks) ==
    IF i < Len(buffer)
    THEN extractLoop_KeepAll(buffer, i + step,
             Append(blocks, decode(SubSeq(buffer, i + 1,
                                          i + Min({step, Len(buffer) - i})))))
    ELSE blocks

\* The for loop of extractText at offset i (0-based), blocks pushed so far.
RECURSIVE extractLoop(_, _, _)
extractLoop(buffer, i, blocks) ==
    IF i < Len(buffer)
    THEN LET length == IF step <= Len(buffer) - i THEN step ELSE Len(buffer) - i
             chunk  == SubSeq(buffer, i + 1, i + length)
             text   == decode(chunk)
         IN  extractLoop(buffer, i + step,
                         IF containsRelevantText(text)
                         THEN Append(blocks, text) ELSE blocks)
    ELSE blocks

\* extractText(buffer)
extractText(buffer) == join(extractLoop(buffer, 0, <<>>))

-----------------------------------------------------------------------------
(* The page: one CHMJsonExtractor per extractor id, one set of DOM elements. *)

Extractors == {1, 2}

MaxReads == 2

ITSF == <<73, 84, 83, 70>>

\* The files a user can drop: [name, buffer].
Files ==
    << [name   |-> <<97, 46, 99, 104, 109>>,                   \* "a.chm"
        buffer |-> ITSF \o <<10, 67, 108, 97, 115, 115, 32, 70, 111, 111, 32, 32, 115, 97, 121, 32, 34, 104, 105, 34, 44, 32, 111, 107, 10, 116, 119, 111, 10, 67, 108, 97, 115, 115, 32, 66, 97, 114, 32, 32, 97, 92, 98, 13, 99>>],
                     \* "ITSF\nClass Foo  say \"hi\", ok\ntwo\nClass Bar  a\\b\rc"
       [name   |-> <<66, 46, 67, 72, 77>>,                    \* "B.CHM"
        buffer |-> ITSF \o <<32, 112, 108, 97, 105, 110, 32, 116, 101, 120, 116>>],
                                   \* "ITSF plain text"
       [name   |-> <<99, 46, 99, 104, 109>>,                   \* "c.chm"
        buffer |-> <<88, 89, 90, 65, 10, 67, 108, 97, 115, 115, 32, 70, 111, 111, 32, 32, 111, 110, 101>>],
                                   \* "XYZA\nClass Foo  one"
       [name   |-> <<100, 46, 116, 120, 116>>,                  \* "d.txt"
        buffer |-> ITSF \o <<10, 67, 108, 97, 115, 115, 32, 66, 97, 114, 32, 32, 116, 119, 111>>],
                                   \* "ITSF\nClass Bar  two"
       [name   |-> <<102, 46, 99, 104, 109>>,                   \* "f.chm"
        buffer |-> <<73, 84, 83>>] >>                        \* "ITS"

FileIds == DOMAIN Files

\* file.name.toLowerCase().endsWith('.chm')
endsWithChm(name) ==
    LET lower == [i \in DOMAIN name |-> ToLower(name[i])]
    IN  /\ Len(name) >= 4
        /\ SubSeq(lower, Len(name) - 3, Len(name)) = <<46, 99, 104, 109>>

\* showStatus(msg, type): the #status element's textContent and className.
showStatus(msg, type) == [msg |-> msg, type |-> type]

InvalidFormat ==
    showStatus(<<"Invalid CHM format (missing ITSF signature).">>, "error")

Successful == showStatus(<<"Extraction successful!">>, "success")

\* Mutant: the result of validateCHM is not acted on (the early return is lost).
loadFileOutcome_NoGate(buffer) ==
    [status |-> Successful,
     called |-> {"validateCHM", "extractText", "toStructuredJSON", "previewJSON"},
     json   |-> Some(toStructuredJSON(extractText(buffer)))]

\* loadFile from the point where the buffer has arrived: the status it shows,
\* the methods it calls and, for a valid buffer, the records it stores.
loadFileOutcome(buffer) ==
    IF ~validateCHM(buffer)
    THEN [status |-> InvalidFormat,
          called |-> {"validateCHM"},
          json   |-> Null]
    ELSE [status |-> Successful,
          called |-> {"validateCHM", "extractText", "toStructuredJSON",
                      "previewJSON"},
          json   |-> Some(toStructuredJSON(extractText(buffer)))]

\* The code units of a record's type.
ClassText == <<67, 108, 97, 115, 115>>                       \* "Class"

typeText(type) == IF type = "Class" THEN ClassText ELSE <<>>

\* The concatenation of a list of strings.
RECURSIVE concat(_)
concat(strs) == IF strs = <<>> THEN <<>> ELSE Head(strs) \o concat(Tail(strs))

\* The strings of a list joined by a separator: Array.prototype.join.
joinBy(strs, sep) ==
    concat([k \in DOMAIN strs |-> IF k = 1 THEN strs[k] ELSE sep \o strs[k]])

\* JSON.stringify of a string: quotes, backslashes and control characters
\* escaped, a surrogate without its partner written as \udxxx.
Hex(d) == IF d < 10 THEN 48 + d ELSE 87 + d

UnicodeEscape(c) ==
    <<92, 117, Hex(c \div 4096), Hex((c \div 256) % 16),
      Hex((c \div 16) % 16), Hex(c % 16)>>

QuoteJSONChar(str, j) ==
    LET c == str[j]
    IN  CASE c = 34 -> <<92, 34>>
          [] c = 92 -> <<92, 92>>
          [] c = 8  -> <<92, 98>>
          [] c = 12 -> <<92, 102>>
          [] c = 10 -> <<92, 110>>
          [] c = 13 -> <<92, 114>>
          [] c = 9  -> <<92, 116>>
          [] c < 32 /\ c \notin {8, 9, 10, 12, 13} -> UnicodeEscape(c)
          [] c \in 55296..56319 ->
                IF j < Len(str) /\ str[j + 1] \in 56320..57343
                THEN <<c>> ELSE UnicodeEscape(c)
          [] c \in 56320..57343 ->
                IF j > 1 /\ str[j - 1] \in 55296..56319
                THEN <<c>> ELSE UnicodeEscape(c)
          [] OTHER -> <<c>>

QuoteJSONString(str) ==
    <<34>> \o concat([j \in DOMAIN str |-> QuoteJSONChar(str, j)]) \o <<34>>

\* JSON.stringify(row, null, 2) of one record inside the list, indented.
stringifyRecord(row) ==
    <<32, 32, 123>> \o <<10>>
    \o <<32, 32, 32, 32, 34, 116, 121, 112, 101, 34, 58, 32>>
    \o QuoteJSONString(typeText(row.type)) \o <<44, 10>>
    \o <<32, 32, 32, 32, 34, 110, 97, 109, 101, 34, 58, 32>>
    \o QuoteJSONString(row.name) \o <<44, 10>>
    \o <<32, 32, 32, 32, 34, 100, 101, 115, 99, 114, 105, 112, 116, 105, 111, 110, 34, 58, 32>>
    \o QuoteJSONString(row.description) \o <<10>>
    \o <<32, 32, 125>>

\* JSON.stringify(json, null, 2) of a list of records.
stringify(json) ==
    IF json = <<>> THEN <<91, 93>>
    ELSE <<91, 10>>
         \o joinBy([k \in DOMAIN json |-> stringifyRecord(json[k])], <<44, 10>>)
         \o <<10, 93>>

\* description.replace(/"/g, '""')
replaceQuotes(str) ==
    concat([j \in DOMAIN str |-> IF str[j] = 34 THEN <<34, 34>> ELSE <<str[j]>>])

\* Mutant: the quotes of the description are not doubled.
csvRow_NoEscape(row) ==
    joinBy(<< typeText(row.type),
              <<34>> \o row.name \o <<34>>,
              <<34>> \o row.description \o <<34>> >>, <<44>>)

\* One row of the CSV: [row.type, `"${row.name}"`, `"${...}"`].join(',')
csvRow(row) ==
    joinBy(<< typeText(row.type),
              <<34>> \o row.name \o <<34>>,
              <<34>> \o replaceQuotes(row.description) \o <<34>> >>, <<44>>)

CsvHeader ==
    <<84, 121, 112, 101, 44, 78, 97, 109, 101, 44, 68, 101, 115, 99, 114, 105, 112, 116, 105, 111, 110>>
                                   \* "Type,Name,Description"

\* csvRows.join('\n')
csvText(json) ==
    joinBy(<<CsvHeader>> \o [k \in DOMAIN json |-> csvRow(json[k])], <<10>>)

\* The link a download handler creates and clicks: the blob and the name.
link(content, type, name) ==
    [content |-> content, type |-> type, download |-> name]

\* if (!this.jsonData || !this.jsonData.length) return;
noData(json) == json = Null \/ Len(Value(json)) = 0

\* new CHMConverter(): its fields, the elements it shows and hides, the
\* convertFile runs suspended at "await this.readFileAsArrayBuffer(...)" and
\* the number of pending "show download button" timeouts.
InitConverter ==
    [selectedFile    |-> Null,
     convertedData   |-> Null,
     selectedFormat  |-> "txt",
     status          |-> Null,
     fileInfo        |-> Null,
     convertBtn      |-> Null,
     progressSection |-> "none",
     downloadBtn     |-> "none",
     downloaded      |-> Null,
     runs            |-> {},
     started         |-> 0,
     timeouts        |-> 0]

InitPage ==
    /\ jsonData = [e \in Extractors |-> Null]
    /\ status = showStatus("", "")
    /\ jsonPreview = Null
    /\ downloadButtons = FALSE
    /\ reads = {}
    /\ called = {}
    /\ loaded = [e \in Extractors |-> Null]
    /\ download = Null
    /\ selected = Null
    /\ converter = InitConverter

PageVars == <<jsonData, status, jsonPreview, downloadButtons, reads, called,
              loaded, download, selected, converter>>

Init ==
    /\ InitPage
    /\ input = Null
    /\ output = Null
    /\ pc = "idle"

\* loadFile(file) on extractor e up to "await file.arrayBuffer()".
loadFile(e, f) ==
    /\ Cardinality(reads) < MaxReads
    /\ IF ~endsWithChm(Files[f].name)
       THEN /\ status' = showStatus(<<"Only .chm files are supported.">>, "error")
            /\ UNCHANGED <<reads, selected>>
       ELSE /\ status' = showStatus(<<"Reading", Files[f].name>>, "")
            /\ reads' = reads \cup {<<e, f>>}
            /\ selected' = Some(<<e, f>>)
    /\ called' = {}
    /\ download' = Null
    /\ UNCHANGED <<jsonData, jsonPreview, downloadButtons, loaded, converter,
                   input, output, pc>>

\* Mutant: the entries array outlives the call, each load appends to it.
loadFileResume_Accumulate(e, f) ==
    /\ <<e, f>> \in reads
    /\ reads' = reads \ {<<e, f>>}
    /\ LET o == loadFileOutcome(Files[f].buffer)
       IN  /\ status' = o.status
           /\ called' = {<<m, e, f>> : m \in o.called}
           /\ IF o.json = Null
              THEN UNCHANGED <<jsonData, jsonPreview, downloadButtons, loaded>>
              ELSE LET all == (IF jsonData[e] = Null THEN <<>>
                                                     ELSE Value(jsonData[e]))
                              \o Value(o.json)
                   IN  /\ jsonData' = [jsonData EXCEPT ![e] = Some(all)]
                       /\ jsonPreview' = Some(all)
                       /\ downloadButtons' = TRUE
                       /\ loaded' = [loaded EXCEPT ![e] = Some(f)]
    /\ download' = Null
    /\ UNCHANGED <<selected, converter, input, output, pc>>

\* Mutant: an invalid buffer clears the records, the preview and the buttons.
loadFileResume_ClearOnInvalid(e, f) ==
    /\ <<e, f>> \in reads
    /\ reads' = reads \ {<<e, f>>}
    /\ LET o == loadFileOutcome(Files[f].buffer)
       IN  /\ status' = o.status
           /\ called' = {<<m, e, f>> : m \in o.called}
           /\ IF o.json = Null
              THEN /\ jsonData' = [jsonData EXCEPT ![e] = Null]
                   /\ jsonPreview' = Null
                   /\ downloadButtons' = FALSE
                   /\ loaded' = [loaded EXCEPT ![e] = Null]
              ELSE /\ jsonData' = [jsonData EXCEPT ![e] = o.json]
                   /\ jsonPreview' = o.json
                   /\ downloadButtons' = TRUE
                   /\ loaded' = [loaded EXCEPT ![e] = Some(f)]
    /\ download' = Null
    /\ UNCHANGED <<selected, converter, input, output, pc>>

\* loadFile(file) on extractor e from the point where the buffer arrives.
loadFileResume(e, f) ==
    /\ <<e, f>> \in reads
    /\ reads' = reads \ {<<e, f>>}
    /\ LET o == loadFileOutcome(Files[f].buffer)
       IN  /\ status' = o.status
           /\ called' = {<<m, e, f>> : m \in o.called}
           /\ IF o.json = Null
              THEN UNCHANGED <<jsonData, jsonPreview, downloadButtons, loaded>>
              ELSE /\ jsonData' = [jsonData EXCEPT ![e] = o.json]
                   /\ jsonPreview' = o.json
                   /\ downloadButtons' = TRUE
                   /\ loaded' = [loaded EXCEPT ![e] = Some(f)]
    /\ download' = Null
    /\ UNCHANGED <<selected, converter, input, output, pc>>

\* file.arrayBuffer() rejects: loadFile ends with the rejection, nothing set.
loadFileRejected(e, f) ==
    /\ <<e, f>> \in reads
    /\ reads' = reads \ {<<e, f>>}
    /\ called' = {}
    /\ download' = Null
    /\ UNCHANGED <<jsonData, status, jsonPreview, downloadButtons, loaded,
                   selected, converter, input, output, pc>>

\* Mutant: downloadJSON without the early return.
downloadJSON_NoGuard(e) ==
    /\ download' =
          Some([handler |-> "downloadJSON", e |-> e,
                link |-> Some(link(IF jsonData[e] = Null
                                   THEN <<110, 117, 108, 108>>
                                   ELSE stringify(Value(jsonData[e])),
                                   "application/json", "chm_api.json"))])
    /\ called' = {}
    /\ UNCHANGED <<jsonData, status, jsonPreview, downloadButtons, reads,
                   loaded, selected, converter, input, output, pc>>

\* downloadJSON() on extractor e: a click on #downloadBtn.
downloadJSON(e) ==
    /\ download' =
          Some([handler |-> "downloadJSON", e |-> e,
                link |-> IF noData(jsonData[e]) THEN Null
                         ELSE Some(link(stringify(Value(jsonData[e])),
                                        "application/json", "chm_api.json"))])
    /\ called' = {}
    /\ UNCHANGED <<jsonData, status, jsonPreview, downloadButtons, reads,
                   loaded, selected, converter, input, output, pc>>

\* downloadCSV() on extractor e: a click on #downloadCSVBtn.
downloadCSV(e) ==
    /\ download' =
          Some([handler |-> "downloadCSV", e |-> e,
                link |-> IF noData(jsonData[e]) THEN Null
                         ELSE Some(link(csvText(Value(jsonData[e])),
                                        "text/csv", "chm_api.csv"))])
    /\ called' = {}
    /\ UNCHANGED <<jsonData, status, jsonPreview, downloadButtons, reads,
                   loaded, selected, converter, input, output, pc>>

Next ==
    \/ \E e \in Extractors, f \in FileIds :
          \/ loadFile(e, f)
          \/ loadFileResume(e, f)
          \/ loadFileRejected(e, f)
    \/ \E e \in Extractors :
          \/ downloadJSON(e)
          \/ downloadCSV(e)

Spec == Init /\ [][Next]_vars

-----------------------------------------------------------------------------
(* The functions on their own: the argument is drawn from a bounded set,    *)
(* one step applies the function.                                           *)

\* validateCHM on every buffer of at most MaxBufLen bytes over SigBytes.
MaxBufLen == 5

SigBytes == {70, 73, 83, 84, 239}            \* 'F' 'I' 'S' 'T' and 0xEF

SmallBuffers == UNION {[1..n -> SigBytes] : n \in 0..MaxBufLen}

InitValidate ==
    /\ InitPage
    /\ input \in SmallBuffers
    /\ output = Null
    /\ pc = "validateCHM"

CallValidateCHM ==
    /\ pc = "validateCHM"
    /\ output' = validateCHM(input)
    /\ pc' = "done"
    /\ UNCHANGED <<PageVars, input>>

SpecValidate == InitValidate /\ [][CallValidateCHM]_vars

\* loadFile's handling of the buffer, on buffers made of a signature, filler
\* and a payload.  The filler brings the payload up to the border between the
\* first and the second window of extractText, shift bytes of the payload
\* falling into the first window.
MaxShift == 6

Signatures == {ITSF, <<88, 89, 90, 65>>}                  \* "ITSF", "XYZA"

FillBytes == {120, 32}                                 \* 'x', ' '

Payloads ==
    { <<67, 108, 97, 115, 115, 32, 70, 111, 111, 32, 32, 98, 97, 114>>,
                                   \* "Class Foo  bar"
      <<67, 108, 97, 115, 115, 32, 70, 111, 111, 32, 98, 97, 114>>,
                                   \* "Class Foo bar"
      <<32, 112, 108, 97, 105, 110, 32, 116, 101, 120, 116>>,
                                   \* " plain text"
      <<10, 67, 108, 97, 115, 115, 32, 70, 111, 111, 32, 32, 111, 110, 101, 10, 116, 119, 111, 10, 10, 112, 108, 97, 105, 110>>,
                                   \* "\nClass Foo  one\ntwo\n\nplain"
      <<99, 108, 97, 115, 115, 32, 102, 111, 111, 32, 32, 98, 97, 114>>,
                                   \* "class foo  bar"
      <<67, 108, 97, 115, 115, 32, 70, 111, 111>>,       \* "Class Foo"
      <<10, 67, 108, 97, 115, 115, 32, 70, 111, 111, 32, 98, 97, 114>>,
                                   \* "\nClass Foo bar"
      <<>> }

Fillers ==
    {<<>>} \cup {[i \in 1..(step - 4 - shift) |-> b] :
                    b \in FillBytes, shift \in 0..MaxShift}

\* Buffers whose first window ends with head and whose second window is tail.
Heads ==
    { <<10, 67, 108, 97, 115, 115, 32, 70, 111, 111, 32, 32, 111, 110, 101>>,
                                   \* "\nClass Foo  one"
      <<10, 67, 108, 97, 115, 115, 32, 70, 111, 111, 32, 32, 111, 110, 101, 10>> }
                                   \* "\nClass Foo  one\n"

WindowTails ==
    { <<120, 67, 108, 97, 115, 115, 32, 66, 97, 114, 32, 32, 116, 119, 111>>,
                                   \* "xClass Bar  two"
      <<67, 108, 97, 115, 115, 32, 66, 97, 114, 32, 32, 116, 119, 111>>,
                                   \* "Class Bar  two"
      <<116, 119, 111>> }                          \* "two"

StraddleBuffers ==
    {sig \o [i \in 1..(step - 4 - Len(head)) |-> b] \o head \o tail :
        sig \in Signatures, b \in FillBytes, head \in Heads, tail \in WindowTails}

\* Buffers of no, one, two and three windows, full and not.
WindowBuffers ==
    { <<>>,
      [i \in 1..step |-> 120],
      [i \in 1..(step + 1) |-> 120],
      [i \in 1..(2 * step) |-> 120],
      <<67, 108, 97, 115, 115, 32, 70, 111, 111, 32, 32, 111, 110, 101>> \o [i \in 1..(2 * step - 14) |-> 32]
         \o <<67, 108, 97, 115, 115, 32, 66, 97, 114, 32, 32, 116, 119, 111>> }
                 \* "Class Foo  one", blanks up to the third window, "Class Bar  two"

Buffers ==
    StraddleBuffers \cup WindowBuffers \cup
    {sig \o fill \o payload :
        sig \in Signatures, fill \in Fillers, payload \in Payloads}

InitExtract ==
    /\ InitPage
    /\ input \in Buffers
    /\ output = Null
    /\ pc = "loadFile"

CallLoadFileOutcome ==
    /\ pc = "loadFile"
    /\ output' = loadFileOutcome(input)
    /\ pc' = "done"
    /\ UNCHANGED <<PageVars, input>>

SpecExtract == InitExtract /\ [][CallLoadFileOutcome]_vars

\* extractText on the same buffers.
InitText ==
    /\ InitPage
    /\ input \in Buffers
    /\ output = Null
    /\ pc = "extractText"

CallExtractText ==
    /\ pc = "extractText"
    /\ output' = extractText(input)
    /\ pc' = "done"
    /\ UNCHANGED <<PageVars, input>>

SpecText == InitText /\ [][CallExtractText]_vars

\* toStructuredJSON on texts of at most MaxLines lines.
MaxLines == 4

Lines ==
    { <<67, 108, 97, 115, 115, 32, 70, 111, 111, 32, 111, 110, 101>>,
                                   \* "Class Foo one"
      <<67, 108, 97, 115, 115, 32, 66, 97, 114>>,       \* "Class Bar"
      <<32, 32, 116, 119, 111, 32, 32>>,                \* "  two  "
      <<>>,                                            \* ""
      <<32, 9, 13>>,                                  \* " \t\r"
      <<84, 104, 105, 115, 32, 116, 101, 120, 116, 32, 104, 97, 115, 32, 115, 111, 109, 101, 32, 99, 108, 97, 115, 115, 32, 100, 101, 102, 105, 110, 105, 116, 105, 111, 110, 115, 32, 109, 101, 110, 116, 105, 111, 110, 101, 100, 32, 98, 117, 116, 32, 110, 111, 32, 97, 99, 116, 117, 97, 108, 32, 99, 108, 97, 115, 115, 101, 115>>,
          \* "This text has some class definitions mentioned but no actual classes"
      <<116, 104, 114, 101, 101>>,                      \* "three"
      <<67, 108, 97, 115, 115, 32, 65, 32, 98>> }       \* "Class A b"

\* A header and continuation lines whose text exceeds 500 characters.
LongTexts ==
    { <<67, 108, 97, 115, 115, 32, 84, 101, 115, 116, 67, 108, 97, 115, 115, 32>> \o [i \in 1..600 |-> 65],
                                   \* "Class TestClass " and 600 times 'A'
      <<67, 108, 97, 115, 115, 32, 70, 111, 111, 32, 111, 110, 101>>
        \o <<10>> \o [i \in 1..300 |-> 66] \o <<10>> \o [i \in 1..300 |-> 67] }
                                   \* "Class Foo one", 300 times 'B', 300 times 'C'

\* The texts the test suites hand to toStructuredJSON.
ColonText ==
    <<99, 108, 97, 115, 115, 32, 84, 101, 115, 116, 67, 108, 97, 115, 115, 58, 32, 84, 104, 105, 115, 32, 105, 115, 32, 97, 32, 116, 101, 115, 116, 32, 99, 108, 97, 115, 115, 32, 100, 101, 115, 99, 114, 105, 112, 116, 105, 111, 110>>
                 \* "class TestClass: This is a test class description"

LowercaseColonText ==
    <<99, 108, 97, 115, 115, 32, 77, 121, 87, 105, 100, 103, 101, 116, 58, 32, 119, 105, 100, 103, 101, 116, 32, 100, 101, 115, 99, 114, 105, 112, 116, 105, 111, 110>>
                 \* "class MyWidget: widget description"

HtmlHeaderText ==
    <<60, 104, 49, 62, 67, 108, 97, 115, 115, 32, 84, 101, 115, 116, 67, 108, 97, 115, 115, 32, 115, 111, 109, 101, 32, 100, 101, 115, 99, 114, 105, 112, 116, 105, 111, 110, 60, 47, 104, 49, 62>>
                 \* "<h1>Class TestClass some description</h1>"

\* "Introduction text here", "Class FileManager", "This class manages files
\* and data", "Some other content here", "Class Database", "Handles data
\* storage": six lines, all but the first indented by six spaces.
MixedContentText ==
    <<73, 110, 116, 114, 111, 100, 117, 99, 116, 105, 111, 110, 32, 116, 101, 120, 116, 32, 104, 101, 114, 101, 10>>
    \o <<32, 32, 32, 32, 32, 32, 67, 108, 97, 115, 115, 32, 70, 105, 108, 101, 77, 97, 110, 97, 103, 101, 114, 10>>
    \o <<32, 32, 32, 32, 32, 32, 84, 104, 105, 115, 32, 99, 108, 97, 115, 115, 32, 109, 97, 110, 97, 103, 101, 115, 32, 102, 105, 108, 101, 115, 32, 97, 110, 100, 32, 100, 97, 116, 97, 10>>
    \o <<32, 32, 32, 32, 32, 32, 83, 111, 109, 101, 32, 111, 116, 104, 101, 114, 32, 99, 111, 110, 116, 101, 110, 116, 32, 104, 101, 114, 101, 10>>
    \o <<32, 32, 32, 32, 32, 32, 67, 108, 97, 115, 115, 32, 68, 97, 116, 97, 98, 97, 115, 101, 10>>
    \o <<32, 32, 32, 32, 32, 32, 72, 97, 110, 100, 108, 101, 115, 32, 100, 97, 116, 97, 32, 115, 116, 111, 114, 97, 103, 101>>

TestTexts == {ColonText, LowercaseColonText, HtmlHeaderText, MixedContentText}

Texts ==
    LongTexts \cup TestTexts \cup
    {join(ls) : ls \in UNION {[1..n -> Lines] : n \in 1..MaxLines}}

InitJSON ==
    /\ InitPage
    /\ input \in Texts
    /\ output = Null
    /\ pc = "toStructuredJSON"

CallToStructuredJSON ==
    /\ pc = "toStructuredJSON"
    /\ output' = toStructuredJSON(input)
    /\ pc' = "done"
    /\ UNCHANGED <<PageVars, input>>

SpecJSON == InitJSON /\ [][CallToStructuredJSON]_vars

\* containsRelevantText on texts made of a keyword, whitespace, an
\* identifier, whitespace and a tail, and on the texts of the test suites.
Keywords ==
    { <<67, 108, 97, 115, 115>>,                        \* "Class"
      <<99, 108, 97, 115, 115>>,                        \* "class"
      <<67, 76, 65, 83, 83>>,                           \* "CLASS"
      <<120, 67, 108, 97, 115, 115>>,                   \* "xClass"
      <<67, 108, 97, 115>>,                             \* "Clas"
      <<>> }                                            \* ""

FirstGaps ==
    { <<>>,                                             \* ""
      <<32>>,                                           \* " "
      <<9, 10>> }                                       \* "\t\n"

Identifiers ==
    { <<70, 111, 111>>,                                 \* "Foo"
      <<102, 111, 111>>,                                \* "foo"
      <<65>>,                                           \* "A"
      <<70, 57, 95>>,                                   \* "F9_"
      <<57, 97>> }                                      \* "9a"

SecondGaps ==
    { <<>>,                                             \* ""
      <<32>>,                                           \* " "
      <<32, 32>>,                                       \* "  "
      <<32, 13>> }                                      \* " \r"

Tails ==
    { <<>>,                                             \* ""
      <<98, 97, 114>> }                                 \* "bar"

HtmlHeadingChunk == <<60, 104, 49, 62, 67, 108, 97, 115, 115, 32, 77, 121, 67, 108, 97, 115, 115, 60, 47, 104, 49, 62>>
                                   \* "<h1>Class MyClass</h1>"

ColonChunk ==
    <<99, 108, 97, 115, 115, 32, 77, 121, 67, 108, 97, 115, 115, 58, 32, 68, 101, 115, 99, 114, 105, 112, 116, 105, 111, 110, 32, 104, 101, 114, 101>>
                                   \* "class MyClass: Description here"

ParenthesesChunk ==
    <<67, 108, 97, 115, 115, 32, 77, 121, 67, 108, 97, 115, 115, 40, 112, 97, 114, 97, 109, 101, 116, 101, 114, 41>>
                                   \* "Class MyClass(parameter)"

ControlBytesChunk == [j \in 1..16 |-> j - 1]         \* "\x00\x01 ... \x0F"

GluedChunk ==
    <<67, 108, 97, 115, 115, 78, 111, 83, 112, 97, 99, 101, 115, 32, 68, 101, 115, 99, 114, 105, 112, 116, 105, 111, 110>>
                                   \* "ClassNoSpaces Description"

Chunks ==
    {<<>>, HtmlHeadingChunk, ColonChunk, ParenthesesChunk, ControlBytesChunk,
     GluedChunk} \cup
    {k \o g \o n \o h \o t :
        k \in Keywords, g \in FirstGaps, n \in Identifiers,
        h \in SecondGaps, t \in Tails}

InitRelevant ==
    /\ InitPage
    /\ input \in Chunks
    /\ output = Null
    /\ pc = "containsRelevantText"

CallContainsRelevantText ==
    /\ pc = "containsRelevantText"
    /\ output' = containsRelevantText(input)
    /\ pc' = "done"
    /\ UNCHANGED <<PageVars, input>>

SpecRelevant == InitRelevant /\ [][CallContainsRelevantText]_vars

\* toStructuredJSON called with null or with one of the texts.
Arguments == {Null} \cup {Some(text) : text \in Texts}

InitJSONCall ==
    /\ InitPage
    /\ input \in Arguments
    /\ output = Null
    /\ pc = "toStructuredJSON"

CallToStructuredJSONCall ==
    /\ pc = "toStructuredJSON"
    /\ output' = toStructuredJSONCall(input)
    /\ pc' = "done"
    /\ UNCHANGED <<PageVars, input>>

SpecJSONCall == InitJSONCall /\ [][CallToStructuredJSONCall]_vars

-----------------------------------------------------------------------------
(* CHMConverter (script.js): parseCHMFile.                                  *)

\* DataView.prototype.getUint32(byteOffset, true); Null is the RangeError of
\* a read that does not lie inside the buffer.
getUint32(buffer, byteOffset) ==
    IF byteOffset + 4 > Len(buffer) THEN Null
    ELSE Some(buffer[byteOffset + 1] + 256 * buffer[byteOffset + 2]
              + 65536 * buffer[byteOffset + 3] + 16777216 * buffer[byteOffset + 4])

\* new Uint8Array(arrayBuffer, byteOffset, length); Null is the RangeError of
\* a view that does not lie inside the buffer.
Uint8ArrayOf(buffer, byteOffset, length) ==
    IF byteOffset > Len(buffer) \/ byteOffset + length > Len(buffer) THEN Null
    ELSE Some(SubSeq(buffer, byteOffset + 1, byteOffset + length))

\* String.prototype.includes
includes(str, search) ==
    \E i \in 1..(Len(str) - Len(search) + 1) :
        SubSeq(str, i, i + Len(search) - 1) = search

\* The test that admits a directory entry to parsedData.entries.
entryTextListed(entryText) ==
    \/ includes(entryText, <<46, 104, 116, 109, 108>>) \/ includes(entryText, <<46, 104, 116, 109>>)
    \/ includes(entryText, <<99, 108, 97, 115, 115>>) \/ includes(entryText, <<109, 101, 116, 104, 111, 100>>)
    \/ includes(entryText, <<102, 117, 110, 99, 116, 105, 111, 110>>) \/ includes(entryText, <<97, 112, 105>>)

Max(a, b) == IF a >= b THEN a ELSE b

\* scanEntry with a "continue" that leaves the offset as it is.
scanEntry_NoAdvance(buffer, directoryOffset, directoryLength, offset) ==
    LET read == getUint32(buffer, directoryOffset + offset)
    IN  IF read = Null THEN [offset |-> offset + 4, entries |-> <<>>]
        ELSE IF Value(read) = 0 \/ Value(read) > directoryLength
        THEN [offset |-> offset, entries |-> <<>>]
        ELSE [offset |-> offset + Max(Value(read), 1), entries |-> <<>>]

\* One iteration of the directory scan at the given offset: the offset of
\* the next iteration and the entries pushed (none or one).
scanEntry(buffer, directoryOffset, directoryLength, offset) ==
    LET caught == [offset |-> offset + 4, entries |-> <<>>]
        read   == getUint32(buffer, directoryOffset + offset)
    IN  IF read = Null THEN caught
        ELSE LET entryLength == Value(read)
             IN  IF entryLength = 0 \/ entryLength > directoryLength
                 THEN [offset |-> offset + 4, entries |-> <<>>]
                 ELSE LET remaining == directoryLength - offset
                          entryData == Uint8ArrayOf(buffer, directoryOffset + offset,
                                           IF entryLength <= remaining
                                           THEN entryLength ELSE remaining)
                      IN  IF entryData = Null THEN caught
                          ELSE LET entryText == decode(Value(entryData))
                               IN  [offset  |-> offset + Max(entryLength, 1),
                                    entries |->
                                        IF entryTextListed(entryText)
                                        THEN << [offset  |-> directoryOffset + offset,
                                                 length  |-> entryLength,
                                                 content |-> entryText] >>
                                        ELSE <<>>]

\* The statements of parseCHMFile before its loop: the header fields, or the
\* error thrown.
parseHeader(buffer) ==
    LET thrown(error) == [completion |-> "throw", error |-> error]
        signature == Uint8ArrayOf(buffer, 0, 4)
    IN  IF signature = Null THEN thrown("RangeError")
        ELSE IF Value(signature) # ITSF
        THEN thrown("Invalid CHM file format - missing ITSF signature")
        ELSE LET headerLength    == getUint32(buffer, 20)
                 directoryOffset == getUint32(buffer, 48)
                 directoryLength == getUint32(buffer, 52)
             IN  IF headerLength = Null \/ directoryOffset = Null
                    \/ directoryLength = Null
                 THEN thrown("RangeError")
                 ELSE IF Uint8ArrayOf(buffer, Value(directoryOffset),
                                      Value(directoryLength)) = Null
                 THEN thrown("RangeError")
                 ELSE [completion      |-> "normal",
                       headerLength    |-> Value(headerLength),
                       directoryOffset |-> Value(directoryOffset),
                       directoryLength |-> Value(directoryLength)]

\* while (offset < directoryData.length - 8) { ... }: the entries pushed from
\* the given offset on.
RECURSIVE scanLoop(_, _, _, _)
scanLoop(buffer, directoryOffset, directoryLength, offset) ==
    IF offset < directoryLength - 8
    THEN CHOOSE entries \in
             { iteration.entries
               \o scanLoop(buffer, directoryOffset, directoryLength, iteration.offset) :
                   iteration \in {scanEntry(buffer, directoryOffset,
                                            directoryLength, offset)} } : TRUE
    ELSE <<>>

parseCHMFile(arrayBuffer) ==
    LET header == parseHeader(arrayBuffer)
    IN  IF header.completion = "throw" THEN header
        ELSE [completion |-> "normal",
              value |-> [signature       |-> ITSF,
                         headerLength    |-> header.headerLength,
                         directoryOffset |-> header.directoryOffset,
                         directoryLength |-> header.directoryLength,
                         entries         |-> scanLoop(arrayBuffer, header.directoryOffset,
                                                      header.directoryLength, 0),
                         totalSize       |-> Len(arrayBuffer)]]

-----------------------------------------------------------------------------
(* CHMConverter (script.js): extractHTMLContent and its search patterns.    *)
(* Positions are 1-based; a match "end" is the position after the match and *)
(* 0 means that there is no match at the position.                          *)

\* The literal lit (lower case) at position i of str, ignoring case.
StartsWithIgnoreCase(str, i, lit) ==
    /\ i + Len(lit) - 1 <= Len(str)
    /\ \A k \in 1..Len(lit) : ToLower(str[i + k - 1]) = lit[k]

\* The first position >= from that holds the code unit c, or 0.
IndexOfChar(str, c, from) ==
    LET at == {j \in from..Len(str) : str[j] = c}
    IN  IF at = {} THEN 0 ELSE Min(at)

\* \b at position i: exactly one of the code units before and at i is \w.
IsBoundary(str, i) ==
    (i > 1 /\ i - 1 <= Len(str) /\ IsWord(str[i - 1]))
        # (i >= 1 /\ i <= Len(str) /\ IsWord(str[i]))

\* const searchPatterns = [...]: sixteen patterns, all with the flags g and i.
searchPatterns ==
    << [kind |-> "tag",     name |-> <<60, 104, 116, 109, 108>>],
       [kind |-> "tag",     name |-> <<60, 104, 101, 97, 100>>],
       [kind |-> "tag",     name |-> <<60, 98, 111, 100, 121>>],
       [kind |-> "tag",     name |-> <<60, 100, 105, 118>>],
       [kind |-> "tag",     name |-> <<60, 115, 112, 97, 110>>],
       [kind |-> "tag",     name |-> <<60, 112>>],
       [kind |-> "heading", name |-> <<60, 104>>],
       [kind |-> "tag",     name |-> <<60, 112, 114, 101>>],
       [kind |-> "tag",     name |-> <<60, 99, 111, 100, 101>>],
       [kind |-> "word",    name |-> <<99, 108, 97, 115, 115>>],
       [kind |-> "word",    name |-> <<102, 117, 110, 99, 116, 105, 111, 110>>],
       [kind |-> "word",    name |-> <<109, 101, 116, 104, 111, 100>>],
       [kind |-> "word",    name |-> <<112, 114, 111, 112, 101, 114, 116, 121>>],
       [kind |-> "word",    name |-> <<110, 97, 109, 101, 115, 112, 97, 99, 101>>],
       [kind |-> "word",    name |-> <<105, 110, 116, 101, 114, 102, 97, 99, 101>>],
       [kind |-> "word",    name |-> <<101, 110, 117, 109>>] >>

\* The end of the match of one search pattern at position i:
\*   tag      /<name[^>]*>/      heading  /<h[1-6][^>]*>/
\*   word     /name\s+\w+/
searchPatternEnd(pattern, str, i) ==
    IF ~StartsWithIgnoreCase(str, i, pattern.name) THEN 0
    ELSE LET after == i + Len(pattern.name)
         IN  IF pattern.kind = "tag"
             THEN LET gt == IndexOfChar(str, 62, after)
                  IN  IF gt = 0 THEN 0 ELSE gt + 1
             ELSE IF pattern.kind = "heading"
             THEN IF after <= Len(str) /\ str[after] \in 49..54
                  THEN LET gt == IndexOfChar(str, 62, after + 1)
                       IN  IF gt = 0 THEN 0 ELSE gt + 1
                  ELSE 0
             ELSE LET word == SkipSpace(str, after)
                      end  == SkipWord(str, word)
                  IN  IF word > after /\ end > word THEN end ELSE 0

\* RegExp.prototype.test of a pattern with the g flag: the search starts at
\* the pattern's lastIndex (0-based); a match moves lastIndex to its end, a
\* failure resets it to 0.
test(pattern, lastIndex, str) ==
    LET at == {i \in (lastIndex + 1)..Len(str) : searchPatternEnd(pattern, str, i) > 0}
    IN  IF lastIndex > Len(str) \/ at = {}
        THEN [result |-> FALSE, lastIndex |-> 0]
        ELSE [result |-> TRUE, lastIndex |-> searchPatternEnd(pattern, str, Min(at)) - 1]

\* searchPatterns.some(pattern => pattern.test(content)) from the k-th
\* pattern on: the result and the lastIndex of every pattern afterwards.
RECURSIVE some(_, _, _)
some(k, lastIndexes, content) ==
    IF k > Len(searchPatterns) THEN [result |-> FALSE, lastIndexes |-> lastIndexes]
    ELSE CHOOSE outcome \in
             { IF tested.result THEN [result |-> TRUE, lastIndexes |-> updated]
               ELSE some(k + 1, updated, content) :
                   <<tested, updated>> \in
                       { <<t, [lastIndexes EXCEPT ![k] = t.lastIndex]>> :
                            t \in {test(searchPatterns[k], lastIndexes[k], content)} } } :
             TRUE

-----------------------------------------------------------------------------
(* CHMConverter (script.js): extractMeaningfulContent.                      *)

\* [\x00-\x08\x0E-\x1F\x7F-\x9F]
IsControl(c) == c \in 0..8 \/ c \in 14..31 \/ c \in 127..159

IsKept(c) == ~IsControl(c)

\* /<name[^>]*>[\s\S]*?<\/name>/gi at position i, for open = "<name" and
\* close = "</name>".
ElementEnd(str, i, open, close) ==
    IF ~StartsWithIgnoreCase(str, i, open) THEN 0
    ELSE LET gt == IndexOfChar(str, 62, i + Len(open))
         IN  IF gt = 0 THEN 0
             ELSE LET closes == {k \in (gt + 1)..Len(str) :
                                     StartsWithIgnoreCase(str, k, close)}
                  IN  IF closes = {} THEN 0 ELSE Min(closes) + Len(close)

\* /<[^>]+>/g at position i.
TagEnd(str, i) ==
    IF i > Len(str) \/ str[i] # 60 THEN 0
    ELSE LET gt == IndexOfChar(str, 62, i + 1)
         IN  IF gt >= i + 2 THEN gt + 1 ELSE 0

ClassKeywords ==
    {<<99, 108, 97, 115, 115>>, <<105, 110, 116, 101, 114, 102, 97, 99, 101>>, <<101, 110, 117, 109>>, <<110, 97, 109, 101, 115, 112, 97, 99, 101>>, <<115, 116, 114, 117, 99, 116>>}

MemberKeywords ==
    {<<102, 117, 110, 99, 116, 105, 111, 110>>, <<109, 101, 116, 104, 111, 100>>, <<112, 114, 111, 112, 101, 114, 116, 121>>, <<102, 105, 101, 108, 100>>, <<101, 118, 101, 110, 116>>}

\* /\b(k1|k2|...)\s+\w+/i at position i.
KeywordHeaderEnd(str, i, keywords) ==
    LET found == {kw \in keywords :
                     /\ StartsWithIgnoreCase(str, i, kw)
                     /\ LET word == SkipSpace(str, i + Len(kw))
                        IN  word > i + Len(kw) /\ SkipWord(str, word) > word}
    IN  IF IsBoundary(str, i) /\ found # {}
        THEN LET kw == CHOOSE kw \in found : TRUE
             IN  SkipWord(str, SkipSpace(str, i + Len(kw)))
        ELSE 0

\* /\b\w+\.\w+/ at position i.
DottedNameEnd(str, i) ==
    IF i <= Len(str) /\ IsWord(str[i]) /\ IsBoundary(str, i)
    THEN LET dot == SkipWord(str, i)
         IN  IF dot <= Len(str) /\ str[dot] = 46 /\ SkipWord(str, dot + 1) > dot + 1
             THEN SkipWord(str, dot + 1) ELSE 0
    ELSE 0

\* The start of a block of an apiPattern at position i.
BlockHeaderEnd(kind, str, i) ==
    IF kind = "class" THEN KeywordHeaderEnd(str, i, ClassKeywords)
    ELSE IF kind = "member" THEN KeywordHeaderEnd(str, i, MemberKeywords)
    ELSE DottedNameEnd(str, i)

\* (?=header|\n\n|\r\n\r\n|$) at position q.
BlockStopsAt(kind, str, q) ==
    \/ BlockHeaderEnd(kind, str, q) > 0
    \/ q + 1 <= Len(str) /\ SubSeq(str, q, q + 1) = <<10, 10>>
    \/ q + 3 <= Len(str) /\ SubSeq(str, q, q + 3) = <<13, 10, 13, 10>>
    \/ q = Len(str) + 1

\* /\b\w+\s*\([^)]*\)\s*[:=]\s*[^;]+/ at position i.
SignatureEnd(str, i) ==
    IF i <= Len(str) /\ IsWord(str[i]) /\ IsBoundary(str, i)
    THEN LET open == SkipSpace(str, SkipWord(str, i))
         IN  IF open <= Len(str) /\ str[open] = 40
             THEN LET close == IndexOfChar(str, 41, open + 1)
                  IN  IF close = 0 THEN 0
                      ELSE LET sign == SkipSpace(str, close + 1)
                           IN  IF /\ sign + 1 <= Len(str)
                                  /\ str[sign] \in {58, 61}
                                  /\ str[sign + 1] # 59
                               THEN LET semi == IndexOfChar(str, 59, sign + 1)
                                    IN  IF semi = 0 THEN Len(str) + 1 ELSE semi
                               ELSE 0
             ELSE 0
    ELSE 0

\* The end of the match at position i of the pattern of the given kind.
MatchEnd(kind, str, i) ==
    IF kind = "script" THEN ElementEnd(str, i, <<60, 115, 99, 114, 105, 112, 116>>, <<60, 47, 115, 99, 114, 105, 112, 116, 62>>)
    ELSE IF kind = "style" THEN ElementEnd(str, i, <<60, 115, 116, 121, 108, 101>>, <<60, 47, 115, 116, 121, 108, 101, 62>>)
    ELSE IF kind = "tag" THEN TagEnd(str, i)
    ELSE IF kind = "space"
         THEN IF i <= Len(str) /\ IsSpace(str[i]) THEN SkipSpace(str, i) ELSE 0
    ELSE IF kind = "signature" THEN SignatureEnd(str, i)
    ELSE LET header == BlockHeaderEnd(kind, str, i)
         IN  IF header = 0 THEN 0
             ELSE Min({q \in header..(Len(str) + 1) : BlockStopsAt(kind, str, q)})

\* The position of the leftmost match at or after from, or 0.
FirstMatch(kind, str, from) ==
    LET at == {i \in from..Len(str) : MatchEnd(kind, str, i) > 0}
    IN  IF at = {} THEN 0 ELSE Min(at)

\* String.prototype.replace(pattern, replacement) with the g flag, from the
\* position from on.
RECURSIVE replace(_, _, _, _)
replace(kind, str, replacement, from) ==
    CHOOSE replaced \in
        { IF i = 0 THEN SubSeq(str, from, Len(str))
          ELSE CHOOSE rest \in
                   { SubSeq(str, from, i - 1) \o replacement
                     \o replace(kind, str, replacement, end) :
                         end \in {MatchEnd(kind, str, i)} } : TRUE :
              i \in {FirstMatch(kind, str, from)} } : TRUE

\* String.prototype.match(pattern) with the g flag, from the position from
\* on: the matched substrings (the empty sequence stands for null).
RECURSIVE matchAll(_, _, _)
matchAll(kind, str, from) ==
    CHOOSE matches \in
        { IF i = 0 THEN <<>>
          ELSE CHOOSE rest \in
                   { <<SubSeq(str, i, end - 1)>> \o matchAll(kind, str, end) :
                         end \in {MatchEnd(kind, str, i)} } : TRUE :
              i \in {FirstMatch(kind, str, from)} } : TRUE

apiPatterns == <<"class", "member", "signature", "dotted">>

\* for (const pattern of apiPatterns) { ... }: from the k-th pattern on.
RECURSIVE forApiPatterns(_, _)
forApiPatterns(k, content) ==
    IF k > Len(apiPatterns) THEN <<>>
    ELSE CHOOSE extractedContent \in
             { (IF matches # <<>>
                THEN joinBy(matches, <<10, 10>>) \o <<10, 10>>
                ELSE <<>>)
               \o forApiPatterns(k + 1, content) :
                   matches \in {matchAll(apiPatterns[k], content, 1)} } : TRUE

\* Each step is bound as the one element of a set, which is computed once.
extractMeaningfulContent(rawContent) ==
    CHOOSE result \in
        { IF Len(trim(extractedContent)) = 0 THEN content ELSE extractedContent :
            <<content, extractedContent>> \in
            { <<content, forApiPatterns(1, content)>> :
                content \in
                { trim(replace("space", noTags, <<32>>, 1)) :
                    noTags \in
                    { replace("tag", noStyle, <<32>>, 1) :
                        noStyle \in
                        { replace("style", noScript, <<>>, 1) :
                            noScript \in
                            { replace("script", visible, <<>>, 1) :
                                visible \in {SelectSeq(rawContent, IsKept)} } } } } } } :
        TRUE

\* for (const entry of parsedData.entries) { ... }: the contents pushed for
\* the given entries when the patterns have the given lastIndex values.
RECURSIVE forEntries(_, _)
forEntries(entries, lastIndexes) ==
    IF entries = <<>> THEN <<>>
    ELSE CHOOSE htmlContent \in
             { (IF hasHTML.result /\ Len(trim(cleanContent)) > 50
                THEN <<cleanContent>> ELSE <<>>)
               \o forEntries(rest, hasHTML.lastIndexes) :
                   <<rest, hasHTML, cleanContent>> \in
                       { <<Tail(entries), some(1, lastIndexes, content),
                           extractMeaningfulContent(content)>> :
                            content \in {Head(entries).content} } } : TRUE

extractHTMLContent(parsedData) ==
    CHOOSE htmlContent \in
        { forEntries(entries, [k \in DOMAIN searchPatterns |-> 0]) :
              entries \in {parsedData.entries} } : TRUE

-----------------------------------------------------------------------------
(* CHMConverter (script.js): the page.  The handlers are processFile (drop  *)
(* and file input), the format buttons, convertFile (convert button) with   *)
(* its continuation after the file has been read, the timeout that shows    *)
(* the download button, and downloadFile (download button).                 *)

MaxRuns == 2

Formats == {"txt", "pdf", "json"}

\* The four bytes of a little-endian 32-bit value.
LE32(n) == <<n % 256, (n \div 256) % 256, (n \div 65536) % 256, n \div 16777216>>

Zeros(n) == [i \in 1..n |-> 0]

\* The 56 bytes parseCHMFile reads as the header: the signature at 0, the
\* header length at 20, the directory offset at 48 and its length at 52.
Header(headerLength, directoryOffset, directoryLength) ==
    ITSF \o Zeros(16) \o LE32(headerLength) \o Zeros(24)
         \o LE32(directoryOffset) \o LE32(directoryLength)

\* A directory entry as the scan reads it: its length, then its content.
Entry(content) == LE32(4 + Len(content)) \o content

WidgetEntry ==
    Entry(<<32, 99, 108, 97, 115, 115, 32, 87, 105, 100, 103, 101, 116, 32, 100, 114, 97, 119, 115, 32, 97, 32, 119, 105, 100, 103, 101, 116, 59, 32, 109, 101, 116, 104, 111, 100, 32, 112, 97, 105, 110, 116, 32, 40, 99, 97, 110, 118, 97, 115, 41, 32, 61, 32, 118, 111, 105, 100>>)

GadgetEntry ==
    Entry(<<32, 60, 112, 62, 102, 117, 110, 99, 116, 105, 111, 110, 32, 115, 112, 105, 110, 32, 116, 117, 114, 110, 115, 32, 116, 104, 101, 32, 103, 97, 100, 103, 101, 116, 32, 97, 114, 111, 117, 110, 100, 32, 105, 116, 115, 32, 97, 120, 105, 115, 32, 111, 110, 99, 101, 60, 47, 112, 62>>)

\* The files a user can select: [name, size, buffer].
ConverterFiles ==
    << [name   |-> <<97, 46, 99, 104, 109>>,
        size   |-> 56 + Len(WidgetEntry) + 8,
        buffer |-> Header(96, 56, Len(WidgetEntry) + 8) \o WidgetEntry \o Zeros(8)],
       [name   |-> <<77, 121, 32, 65, 80, 73, 46, 99, 104, 109>>,
        size   |-> 56 + Len(GadgetEntry) + 8,
        buffer |-> Header(96, 56, Len(GadgetEntry) + 8) \o GadgetEntry \o Zeros(8)],
       [name   |-> <<99, 46, 99, 104, 109>>,
        size   |-> 8,
        buffer |-> <<88, 89, 90, 65>> \o Zeros(4)],
       [name   |-> <<100, 46, 116, 120, 116>>,
        size   |-> 4,
        buffer |-> ITSF],
       [name   |-> <<98, 105, 103, 46, 99, 104, 109>>,
        size   |-> 50 * 1024 * 1024 + 1,
        buffer |-> Null] >>         \* more bytes than the model holds; never read

ConverterFileIds == DOMAIN ConverterFiles

\* showStatus(message, type) of CHMConverter: the #status element's
\* textContent and className.
converterStatus(message, type) == Some([msg |-> message, type |-> type])

\* String.prototype.replace(search, replacement) with a string to search
\* for: the first occurrence only.
replaceFirst(str, search, replacement) ==
    LET at == {i \in 1..(Len(str) - Len(search) + 1) :
                   SubSeq(str, i, i + Len(search) - 1) = search}
    IN  IF at = {} THEN str
        ELSE SubSeq(str, 1, Min(at) - 1) \o replacement
             \o SubSeq(str, Min(at) + Len(search), Len(str))

\* filename.replace(/[^a-z0-9]/gi, '_').replace(/_+/g, '_')
sanitizeFilename(filename) ==
    LET underscored == [i \in DOMAIN filename |->
                           IF \/ filename[i] \in 48..57 \/ filename[i] \in 65..90
                              \/ filename[i] \in 97..122
                           THEN filename[i] ELSE 95]
        first == {i \in DOMAIN underscored :
                     ~(underscored[i] = 95 /\ i > 1 /\ underscored[i - 1] = 95)}
        nth(k) == CHOOSE i \in first : Cardinality({j \in first : j <= i}) = k
    IN  [k \in 1..Cardinality(first) |-> underscored[nth(k)]]

\* parseCHMFile and extractHTMLContent of a buffer: the list of contents, or
\* the error thrown.
extract(arrayBuffer) ==
    CHOOSE extraction \in
        { IF parsedData.completion = "throw" THEN parsedData
          ELSE [completion |-> "normal",
                value      |-> extractHTMLContent(parsedData.value)] :
              parsedData \in {parseCHMFile(arrayBuffer)} } : TRUE

Extractions ==
    [f \in {f \in ConverterFileIds : ConverterFiles[f].buffer # Null}
        |-> extract(ConverterFiles[f].buffer)]

\* processHTMLContent: classes, methods, properties and documentation are
\* functions of htmlContent alone and are kept as htmlContent; the metadata
\* is read from the fields of the converter (extractedDate is left out).
processHTMLContent(htmlContent, selectedFile, selectedFormat) ==
    [htmlContent |-> htmlContent,
     metadata    |-> [originalFile |-> ConverterFiles[selectedFile].name,
                      fileSize     |-> ConverterFiles[selectedFile].size,
                      format       |-> selectedFormat]]

MimeType(format) ==
    IF format = "txt" THEN "text/plain"
    ELSE IF format = "pdf" THEN "application/pdf" ELSE "application/json"

Extension(format) ==
    IF format = "txt" THEN <<46, 116, 120, 116>>
    ELSE IF format = "pdf" THEN <<46, 112, 100, 102>> ELSE <<46, 106, 115, 111, 110>>

\* convertToFormat(content, format): the rendering of the content is kept as
\* the content itself.  jsPDF tells whether "const { jsPDF } = window.jsPDF;
\* new jsPDF()" of convertToPDF works on the page.
convertToFormat(content, format, jsPDF) ==
    IF format \notin Formats
    THEN [completion |-> "throw", error |-> "Unsupported format"]
    ELSE IF format = "pdf" /\ ~jsPDF
    THEN [completion |-> "throw", error |-> "TypeError"]
    ELSE [completion |-> "normal",
          value |-> [type     |-> MimeType(format),
                     content  |-> content,
                     filename |-> sanitizeFilename(
                                      replaceFirst(content.metadata.originalFile,
                                                   <<46, 99, 104, 109>>, <<>>))
                                  \o <<95, 97, 112, 105, 95, 100, 111, 99, 115>> \o Extension(format)]]

ExtractorVars == <<jsonData, status, jsonPreview, downloadButtons, reads, called,
                   loaded, download, selected, input, output, pc>>

processFile(f) ==
    /\ converter' =
           IF ~endsWithChm(ConverterFiles[f].name)
           THEN [converter EXCEPT !.status = converterStatus(
                    <<"Please select a CHM file (.chm extension required).">>, "error")]
           ELSE IF ConverterFiles[f].size > 50 * 1024 * 1024
           THEN [converter EXCEPT !.status = converterStatus(
                    <<"File size exceeds 50MB limit.">>, "error")]
           ELSE [converter EXCEPT
                    !.selectedFile = Some(f),
                    !.fileInfo     = Some(f),
                    !.convertBtn   = Some(converter.selectedFormat),
                    !.status       = converterStatus(
                        <<"CHM file loaded successfully! Select your output format and click convert.">>,
                        "success")]
    /\ UNCHANGED ExtractorVars

\* The click handler of the format button of the given format.
formatBtnClick(format) ==
    /\ converter' =
           IF converter.selectedFile = Null
           THEN [converter EXCEPT !.status = converterStatus(
                    <<"Please upload a CHM file first">>, "error")]
           ELSE [converter EXCEPT
                    !.selectedFormat = format,
                    !.convertBtn     = Some(format)]
    /\ UNCHANGED ExtractorVars

\* convertFile up to "await this.readFileAsArrayBuffer(this.selectedFile)".
\* A run is [id, file, format]: the file handed to the reader and, to state
\* properties only, the format selected at this moment.
convertFile ==
    /\ converter.started < MaxRuns
    /\ converter' =
           IF converter.selectedFile = Null THEN converter
           ELSE [converter EXCEPT
                    !.progressSection = "block",
                    !.downloadBtn     = "none",
                    !.status  = converterStatus(<<"Reading CHM file...">>, "processing"),
                    !.runs    = @ \cup {[id     |-> converter.started + 1,
                                         file   |-> Value(converter.selectedFile),
                                         format |-> converter.selectedFormat]},
                    !.started = @ + 1]
    /\ UNCHANGED ExtractorVars

\* The catch block of convertFile.
convertFileCatch(run, error) ==
    [converter EXCEPT
        !.runs            = @ \ {run},
        !.progressSection = "none",
        !.status          = converterStatus(<<"Error converting file", error>>, "error")]

\* convertFile from the moment the reader has loaded the file: steps 2 to 6
\* run without another handler in between.
convertFileResume(run) ==
    /\ run \in converter.runs
    /\ \E jsPDF \in BOOLEAN :
          LET extraction == Extractions[run.file]
              processedContent ==
                  processHTMLContent(extraction.value, Value(converter.selectedFile),
                                     converter.selectedFormat)
              convertedData ==
                  convertToFormat(processedContent, converter.selectedFormat, jsPDF)
          IN  converter' =
                  IF extraction.completion = "throw"
                  THEN convertFileCatch(run, extraction.error)
                  ELSE IF convertedData.completion = "throw"
                  THEN convertFileCatch(run, convertedData.error)
                  ELSE [converter EXCEPT
                           !.runs            = @ \ {run},
                           !.progressSection = "block",
                           !.convertedData   = Some(convertedData.value),
                           !.status = converterStatus(
                               <<"Successfully converted", converter.selectedFormat>>,
                               "success"),
                           !.timeouts = @ + 1]
    /\ UNCHANGED ExtractorVars

\* reader.onerror: the read is rejected and convertFile goes to its catch.
convertFileReadError(run) ==
    /\ run \in converter.runs
    /\ converter' = convertFileCatch(run, "Failed to read file")
    /\ UNCHANGED ExtractorVars

\* The callback of setTimeout(..., 1000) of a successful run.
showDownloadButton ==
    /\ converter.timeouts > 0
    /\ converter' = [converter EXCEPT
                        !.downloadBtn     = "flex",
                        !.progressSection = "none",
                        !.timeouts        = @ - 1]
    /\ UNCHANGED ExtractorVars

\* A click on the download button, which can be clicked while it is shown.
downloadFile ==
    /\ converter.downloadBtn = "flex"
    /\ converter' =
           IF converter.convertedData = Null
           THEN [converter EXCEPT !.status = converterStatus(
                    <<"No converted file available for download.">>, "error")]
           ELSE [converter EXCEPT
                    !.downloaded = Some([filename |-> Value(converter.convertedData).filename,
                                         type     |-> Value(converter.convertedData).type]),
                    !.status     = converterStatus(
                        <<"File downloaded successfully!">>, "success")]
    /\ UNCHANGED ExtractorVars

NextConverter ==
    \/ \E f \in ConverterFileIds : processFile(f)
    \/ \E format \in Formats : formatBtnClick(format)
    \/ convertFile
    \/ \E run \in converter.runs : convertFileResume(run)
    \/ \E run \in converter.runs : convertFileReadError(run)
    \/ showDownloadButton
    \/ downloadFile

SpecConverter == Init /\ [][NextConverter]_vars

\* extractHTMLContent on lists of directory entries.
MaxEntries == 3

EntryContents ==
    { <<99, 108, 97, 115, 115, 32, 70, 111, 111, 32, 107, 101, 101, 112, 115, 32, 116, 104, 101, 32, 99, 117, 114, 114, 101, 110, 116, 32, 115, 116, 97, 116, 101, 32, 111, 102, 32, 116, 104, 101, 32, 114, 101, 97, 100, 101, 114, 32, 97, 110, 100, 32, 105, 116, 115, 32, 112, 111, 115, 105, 116, 105, 111, 110>>,
      <<60, 100, 105, 118, 62, 80, 108, 97, 105, 110, 32, 119, 111, 114, 100, 115, 32, 111, 102, 32, 97, 32, 112, 97, 103, 101, 32, 116, 104, 97, 116, 32, 105, 115, 32, 108, 111, 110, 103, 32, 101, 110, 111, 117, 103, 104, 32, 116, 111, 32, 98, 101, 32, 107, 101, 112, 116, 32, 104, 101, 114, 101, 60, 47, 100, 105, 118, 62>>,
      <<99, 108, 97, 115, 115, 32, 66, 97, 114, 32, 105, 115, 32, 115, 104, 111, 114, 116>>,
      <<79, 110, 108, 121, 32, 119, 111, 114, 100, 115, 32, 116, 104, 97, 116, 32, 110, 111, 110, 101, 32, 111, 102, 32, 116, 104, 101, 32, 115, 101, 97, 114, 99, 104, 32, 112, 97, 116, 116, 101, 114, 110, 115, 32, 102, 105, 110, 100, 115, 44, 32, 102, 105, 102, 116, 121, 32, 97, 110, 100, 32, 109, 111, 114, 101>>,
      <<99, 108, 97, 115, 115, 32, 70, 111, 111, 32, 104, 97, 115, 32, 111, 110, 101, 32, 109, 101, 116, 104, 111, 100, 32, 102, 111, 114, 32, 101, 118, 101, 114, 121, 32, 115, 116, 97, 116, 101, 59, 32, 99, 108, 97, 115, 115, 32, 66, 97, 122, 32, 104, 97, 115, 32, 110, 111, 110, 101, 32, 97, 116, 32, 97, 108, 108>> }

ParsedData ==
    { [entries |-> [k \in DOMAIN contents |->
                       [offset  |-> 0,
                        length  |-> Len(contents[k]),
                        content |-> contents[k]]]] :
          contents \in UNION {[1..n -> EntryContents] : n \in 0..MaxEntries} }

InitHTML ==
    /\ InitPage
    /\ input \in ParsedData
    /\ output = Null
    /\ pc = "extractHTMLContent"

CallExtractHTMLContent ==
    /\ pc = "extractHTMLContent"
    /\ output' = extractHTMLContent(input)
    /\ pc' = "done"
    /\ UNCHANGED <<PageVars, input>>

SpecHTML == InitHTML /\ [][CallExtractHTMLContent]_vars

\* parseCHMFile step by step, on buffers cut short, with a wrong signature,
\* and with a directory of up to MaxWords four-byte words and eight closing
\* bytes that lies inside the buffer or reaches outside it.
MaxWords == 3

Words == {LE32(0), LE32(1), LE32(5), LE32(12), LE32(100), <<46, 104, 116, 109>>}

Directories ==
    { concat(words) \o Zeros(8) :
          words \in UNION {[1..n -> Words] : n \in 0..MaxWords} }

ShortBuffers ==
    { SubSeq(Header(96, 56, 8) \o Zeros(8), 1, n) : n \in {0, 3, 4, 23, 24, 51, 55} }

ParseBuffers ==
    ShortBuffers
    \cup { <<88, 89, 90, 65>> \o Zeros(60) }
    \cup UNION { { Header(96, 56, Len(directory)) \o directory,
                   Header(96, 56, Len(directory) + 1) \o directory,
                   Header(96, 57, Len(directory) - 1) \o directory,
                   Header(96, 57, Len(directory)) \o directory,
                   Header(96, 1000, 0) \o directory } :
                 directory \in Directories }

InitParse ==
    /\ InitPage
    /\ input \in ParseBuffers
    /\ output = Null
    /\ pc = "parseCHMFile"

\* The statements before the loop.  output holds the locals of the call and,
\* to state properties only, the number of iterations made.
parseCHMFileHeader ==
    /\ pc = "parseCHMFile"
    /\ \E header \in {parseHeader(input)} :
          IF header.completion = "throw"
          THEN /\ pc' = "thrown"
               /\ output' = Some(header)
          ELSE /\ pc' = "while"
               /\ output' = Some([headerLength    |-> header.headerLength,
                                  directoryOffset |-> header.directoryOffset,
                                  directoryLength |-> header.directoryLength,
                                  offset          |-> 0,
                                  entries         |-> <<>>,
                                  iterations      |-> 0])
    /\ UNCHANGED <<PageVars, input>>

\* One iteration of while (offset < directoryData.length - 8).
parseCHMFileIteration ==
    /\ pc = "while"
    /\ Value(output).offset < Value(output).directoryLength - 8
    /\ \E iteration \in {scanEntry(input, Value(output).directoryOffset,
                                   Value(output).directoryLength,
                                   Value(output).offset)} :
          output' = Some([Value(output) EXCEPT
                             !.offset     = iteration.offset,
                             !.entries    = @ \o iteration.entries,
                             !.iterations = @ + 1])
    /\ UNCHANGED <<PageVars, input, pc>>

\* The loop condition is false: the call returns.
parseCHMFileReturn ==
    /\ pc = "while"
    /\ ~(Value(output).offset < Value(output).directoryLength - 8)
    /\ pc' = "done"
    /\ UNCHANGED <<PageVars, input, output>>

NextParse ==
    \/ parseCHMFileHeader
    \/ parseCHMFileIteration
    \/ parseCHMFileReturn

\* The body of the function runs to its end once it is called.
SpecParse == InitParse /\ [][NextParse]_vars /\ WF_vars(NextParse)

-----------------------------------------------------------------------------
(* Claims                                                                   *)

\* The first four bytes are 'I' 'T' 'S' 'F'.
StartsWithITSF(buffer) ==
    /\ Len(buffer) >= 4
    /\ buffer[1] = 73 /\ buffer[2] = 84 /\ buffer[3] = 83 /\ buffer[4] = 70

(* C1: a loadFile that receives a buffer whose first four bytes are not     *)
(* 'ITSF' ends with the invalid-format status and has called neither        *)
(* extractText nor toStructuredJSON; no extractor ever holds records that   *)
(* were extracted from such a buffer.                                       *)
C1_SignatureGate ==
    /\ \A c \in called :
          ~StartsWithITSF(Files[c[3]].buffer)
              => /\ c[1] = "validateCHM"
                 /\ status = InvalidFormat
    /\ \A e \in Extractors :
          loaded[e] # Null => StartsWithITSF(Files[Value(loaded[e])].buffer)

\* A loadFile has just handled a buffer of four or more bytes that does not
\* start with 'ITSF'.
C1_Witness ==
    \E c \in called :
        /\ c[1] = "validateCHM"
        /\ Len(Files[c[3]].buffer) >= 4
        /\ ~StartsWithITSF(Files[c[3]].buffer)

U32LE(buffer, off) ==
    buffer[off + 1] + 256 * buffer[off + 2] + 65536 * buffer[off + 3]
    + 16777216 * buffer[off + 4]

(* C4: strict validation: validateCHM rejects with false every buffer       *)
(* shorter than 96 bytes and every buffer whose header size (offset 8) is   *)
(* below 96 or above the buffer length; for the other buffers that start    *)
(* with 'ITSF' it returns a result carrying version (offset 4) and          *)
(* headerSize (offset 8).                                                   *)
C4_StrictValidation ==
    pc = "done" =>
        IF \/ Len(input) < 96
           \/ U32LE(input, 8) < 96
           \/ U32LE(input, 8) > Len(input)
        THEN output = FALSE
        ELSE StartsWithITSF(input) =>
                /\ output \notin BOOLEAN
                /\ output.version = U32LE(input, 4)
                /\ output.headerSize = U32LE(input, 8)

PayloadOf(buffer) == SubSeq(buffer, 5, Len(buffer))

\* Some line of the text is a class header: classPattern matches it.
HasClassHeader(text) ==
    \E k \in DOMAIN split(text) : matchClassPattern(split(text)[k]) # Null

(* C2: for a buffer that starts with 'ITSF' and whose payload contains no   *)
(* class header, loadFile ends with the success status, not with the        *)
(* invalid-format status, and the records it stores are the empty list.     *)
C2_NoRecordsFound ==
    (/\ pc = "done"
     /\ StartsWithITSF(input)
     /\ ~HasClassHeader(decode(PayloadOf(input))))
    => /\ output.json = Some(<<>>)
       /\ output.status = Successful
       /\ output.status # InvalidFormat

NoiseWords ==
    { <<100, 101, 102, 105, 110, 105, 116, 105, 111, 110, 115>>,    \* "definitions"
      <<100, 101, 102, 105, 110, 105, 116, 105, 111, 110>>,         \* "definition"
      <<116, 101, 120, 116>>,                                       \* "text"
      <<119, 105, 116, 104, 111, 117, 116>>,                        \* "without"
      <<97, 110, 121>>,                                             \* "any"
      <<115, 111, 109, 101>>,                                       \* "some"
      <<114, 101, 103, 117, 108, 97, 114>>,                         \* "regular"
      <<106, 117, 115, 116>>,                                       \* "just"
      <<109, 97, 110, 97, 103, 101, 115>>,                          \* "manages"
      <<102, 105, 108, 101, 115>>,                                  \* "files"
      <<99, 111, 110, 116, 101, 110, 116>>,                         \* "content"
      <<111, 116, 104, 101, 114>>,                                  \* "other"
      <<104, 101, 114, 101>>,                                       \* "here"
      <<99, 108, 97, 115, 115>> }                                   \* "class"

ToLowerCase(str) == [j \in DOMAIN str |-> ToLower(str[j])]

(* C6: every record's name starts with an uppercase letter, consists of     *)
(* letters, digits and underscores, has at least two characters and is,     *)
(* ignoring case, none of the noise words.                                  *)
C6_NameValid ==
    pc = "done" =>
        \A k \in DOMAIN output :
            LET name == output[k].name
            IN  /\ Len(name) >= 2
                /\ name[1] \in 65..90
                /\ \A j \in DOMAIN name : IsWord(name[j])
                /\ ToLowerCase(name) \notin NoiseWords

\* The text is one line: "Class", one space, an identifier that starts with
\* an uppercase letter, and nothing else.
IsBareHeader(text) ==
    /\ Len(text) > 6
    /\ SubSeq(text, 1, 6) = <<67, 108, 97, 115, 115, 32>>
    /\ text[7] \in 65..90
    /\ \A j \in 7..Len(text) : IsWord(text[j])

(* C7: no record has an empty description, and a text that is only a header *)
(* line of keyword and name yields one record for that name whose           *)
(* description is "<name> class".                                           *)
C7_DefaultDescription ==
    pc = "done" =>
        /\ \A k \in DOMAIN output : output[k].description # <<>>
        /\ IsBareHeader(input) =>
              LET name == SubSeq(input, 7, Len(input))
              IN  output = << [type |-> "Class", name |-> name,
                               description |-> name \o <<32, 99, 108, 97, 115, 115>>] >>

(* C8: every record's description has at most 500 characters.               *)
C8_DescriptionCap ==
    pc = "done" =>
        \A k \in DOMAIN output : Len(output[k].description) <= 500

\* The strings of a list joined by single spaces.
RECURSIVE JoinWithSpace(_)
JoinWithSpace(strs) ==
    IF Len(strs) = 1 THEN strs[1]
    ELSE strs[1] \o <<32>> \o JoinWithSpace(Tail(strs))

\* The lines are a header line, then only lines that are neither blank nor
\* a new header, then a header line.
IsTwoHeaderBlock(lines) ==
    /\ Len(lines) >= 2
    /\ matchClassPattern(lines[1]) # Null
    /\ matchClassPattern(lines[Len(lines)]) # Null
    /\ \A k \in 2..(Len(lines) - 1) :
          ~TestBlank(lines[k]) /\ ~TestNewHeader(lines[k])

(* C9: for a header line followed by k lines that are neither blank nor a   *)
(* header and then by another header line, toStructuredJSON returns exactly *)
(* two records, and the description of the first is the text the header     *)
(* line carries after the name followed by the k lines in order, each       *)
(* trimmed, all joined by single spaces.                                    *)
C9_MultiLine ==
    LET lines == split(input)
    IN  (pc = "done" /\ IsTwoHeaderBlock(lines)) =>
            /\ Len(output) = 2
            /\ output[1].description =
                  JoinWithSpace(
                      << trim(Value(matchClassPattern(lines[1]))[2]) >>
                      \o [k \in 1..(Len(lines) - 2) |-> trim(lines[k + 1])])

\* A header with two continuation lines, one of them with blanks around it.
C9_Witness ==
    LET lines == split(input)
    IN  /\ pc = "done"
        /\ IsTwoHeaderBlock(lines)
        /\ Len(lines) = 4
        /\ lines[2] # lines[3]
        /\ \E k \in 2..3 : trim(lines[k]) # lines[k]

(* C10: a blank line ends the record before it: the records of a text are   *)
(* the records of the lines before a blank line followed by the records of  *)
(* the lines after it, so no line after the blank line is added to a        *)
(* description that started before it and the lines after it are scanned    *)
(* as headers again.                                                        *)
C10_BlankLine ==
    LET lines == split(input)
    IN  pc = "done" =>
            \A b \in DOMAIN lines :
                TestBlank(lines[b]) =>
                    output =
                        toStructuredJSON(join(SubSeq(lines, 1, b - 1)))
                        \o toStructuredJSON(join(SubSeq(lines, b + 1, Len(lines))))

\* A header, a blank line, then a line that is not a header and a header:
\* two records, the first with the header's own text only.
C10_Witness ==
    LET lines == split(input)
    IN  /\ pc = "done"
        /\ Len(lines) = 4
        /\ matchClassPattern(lines[1]) # Null
        /\ TestBlank(lines[2])
        /\ ~TestBlank(lines[3]) /\ ~TestNewHeader(lines[3])
        /\ Len(output) = 2
        /\ output[1].description = trim(Value(matchClassPattern(lines[1]))[2])

\* The text is one line: the keyword in any letter case, a space, a name
\* that starts with an uppercase letter, a colon at position c, more text.
IsColonHeader(text, c) ==
    /\ c \in 8..(Len(text) - 1)
    /\ KeywordAt(text, 1)
    /\ text[6] = 32
    /\ text[7] \in 65..90
    /\ \A j \in 7..(c - 1) : IsWord(text[j])
    /\ text[c] = 58
    /\ \A j \in DOMAIN text : text[j] # 10

(* C11: a header line "class <Name>: <text>" yields exactly one record,     *)
(* its name <Name> and its description <text>, the colon in neither.        *)
C11_ColonHeader ==
    pc = "done" =>
        \A c \in DOMAIN input :
            IsColonHeader(input, c) =>
                output = << [type |-> "Class",
                             name |-> SubSeq(input, 7, c - 1),
                             description |->
                                 trim(SubSeq(input, c + 1, Len(input)))] >>

\* The text holds a tag: a "<" with a ">" after it.
ContainsTag(str) ==
    \E j, k \in DOMAIN str : j < k /\ str[j] = 60 /\ str[k] = 62

(* C12: no description holds HTML markup; the text                          *)
(* "<h1>Class TestClass some description</h1>" yields the description       *)
(* "some description".                                                      *)
C12_NoMarkup ==
    pc = "done" =>
        /\ \A k \in DOMAIN output : ~ContainsTag(output[k].description)
        /\ input = HtmlHeaderText =>
              /\ Len(output) = 1
              /\ output[1].description = <<115, 111, 109, 101, 32, 100, 101, 115, 99, 114, 105, 112, 116, 105, 111, 110>>

(* C13: toStructuredJSON returns the empty list and raises no error when    *)
(* its input is the empty string and when its input is null.                *)
C13_EmptyOrNull ==
    (pc = "done" /\ input \in {Null, Some(<<>>)}) =>
        output = [completion |-> "normal", value |-> <<>>]

\* At position p: the keyword in any letter case, whitespace, an identifier
\* that starts with an uppercase letter, at least two whitespace characters.
HeaderWithWideGapAt(text, p) ==
    /\ KeywordAt(text, p)
    /\ \E q \in (p + 6)..Len(text) :
          /\ \A j \in (p + 5)..(q - 1) : IsSpace(text[j])
          /\ text[q] \in 65..90
          /\ \E r \in (q + 1)..(Len(text) - 1) :
                /\ \A j \in q..(r - 1) : IsWord(text[j])
                /\ IsSpace(text[r])
                /\ IsSpace(text[r + 1])

(* C14: containsRelevantText(text) is true exactly when the text holds the  *)
(* keyword in any letter case, whitespace, an identifier whose first        *)
(* character is an uppercase letter and then at least two whitespace        *)
(* characters; it is false for the empty text and for the keyword glued to  *)
(* the identifier.                                                          *)
C14_RelevantIff ==
    pc = "done" =>
        /\ output = (\E p \in DOMAIN input : HeaderWithWideGapAt(input, p))
        /\ input \in {<<>>, GluedChunk} => output = FALSE

(* C15: containsRelevantText is true for a header in HTML-heading shape,    *)
(* in colon-terminated shape and in parenthesis-terminated shape, where the *)
(* name is not followed by two whitespace characters, and false for a text  *)
(* of control bytes only.                                                   *)
C15_HeaderShapes ==
    pc = "done" =>
        /\ input \in {HtmlHeadingChunk, ColonChunk, ParenthesesChunk}
              => output = TRUE
        /\ input = ControlBytesChunk => output = FALSE

\* The line has the documented form "Class <ClassName> <Description>", the
\* three parts separated by single spaces, the name ending before position n.
IsDocumentedHeader(line, n) ==
    /\ n \in 8..(Len(line) - 1)
    /\ SubSeq(line, 1, 6) = <<67, 108, 97, 115, 115, 32>>
    /\ line[7] \in 65..90
    /\ \A j \in 7..(n - 1) : IsWord(line[j])
    /\ line[n] = 32
    /\ ~IsSpace(line[n + 1])
    /\ ~IsSpace(line[Len(line)])

IsPrefix(str, of) == Len(str) <= Len(of) /\ SubSeq(of, 1, Len(str)) = str

(* C16: for every buffer that passes validateCHM and whose text has a line  *)
(* of the documented form "Class <ClassName> <Description>", loadFile       *)
(* stores a record with that name whose description starts with that        *)
(* description; and a chunk that holds a line classPattern matches passes   *)
(* containsRelevantText.                                                    *)
C16_EndToEnd ==
    (pc = "done" /\ validateCHM(input) /\ Len(input) <= step) =>
        LET text == decode(input)
            lines == split(text)
        IN  /\ \A k \in DOMAIN lines : \A n \in DOMAIN lines[k] :
                  IsDocumentedHeader(lines[k], n) =>
                      \E j \in DOMAIN Value(output.json) :
                          /\ Value(output.json)[j].name
                                = SubSeq(lines[k], 7, n - 1)
                          /\ IsPrefix(SubSeq(lines[k], n + 1, Len(lines[k])),
                                      Value(output.json)[j].description)
            /\ HasClassHeader(text) => containsRelevantText(text)

\* The lines classPattern matches.
HeaderLines(lines) ==
    {k \in DOMAIN lines : matchClassPattern(lines[k]) # Null}

\* The last line of the block that starts at line k: the lines after k up to
\* the first one that is blank or passes the new-header test.
BlockEnd(lines, k) ==
    CHOOSE m \in k..Len(lines) :
        /\ \A j \in (k + 1)..m :
              ~TestBlank(lines[j]) /\ ~TestNewHeader(lines[j])
        /\ m < Len(lines) =>
              TestBlank(lines[m + 1]) \/ TestNewHeader(lines[m + 1])

\* The record of the block that starts at header line k.
BlockRecord(lines, k) ==
    LET match == Value(matchClassPattern(lines[k]))
    IN  [type |-> "Class",
         name |-> match[1],
         description |->
             JoinWithSpace(<<trim(match[2])>>
                           \o [j \in 1..(BlockEnd(lines, k) - k)
                                  |-> trim(lines[k + j])])]

(* C19: the header lines of a text start pairwise disjoint blocks of lines: *)
(* a block ends before the next header line, which is not added to the      *)
(* description and starts the next record; the records are exactly the      *)
(* records of these blocks in order, so that no line contributes to more    *)
(* than one record.                                                         *)
C19_NoLineTwice ==
    LET lines == split(input)
        H == HeaderLines(lines)
    IN  pc = "done" =>
            /\ \A k, h \in H : k < h => BlockEnd(lines, k) < h
            /\ Len(output) = Cardinality(H)
            /\ \A k \in H :
                  output[Cardinality({h \in H : h <= k})]
                      = BlockRecord(lines, k)

\* A header line with a continuation line, directly followed by a header
\* line that starts the second record.
C19_Witness ==
    LET lines == split(input)
        H == HeaderLines(lines)
    IN  /\ pc = "done"
        /\ \E k \in H :
              /\ BlockEnd(lines, k) > k
              /\ BlockEnd(lines, k) + 1 \in H
        /\ Len(output) = 2

\* The line holds the lowercase word "class", whitespace and a lowercase
\* letter, and nowhere "Class" or "CLASS" followed by whitespace and an
\* uppercase letter.
IsLowercaseClassLine(line) ==
    /\ \E p \in 1..(Len(line) - 6) :
          /\ SubSeq(line, p, p + 4) = <<99, 108, 97, 115, 115>>
          /\ IsSpace(line[p + 5])
          /\ SkipSpace(line, p + 5) <= Len(line)
          /\ line[SkipSpace(line, p + 5)] \in 97..122
    /\ ~\E p \in 1..(Len(line) - 6) :
          /\ SubSeq(line, p, p + 4) \in {<<67, 108, 97, 115, 115>>,
                                         <<67, 76, 65, 83, 83>>}
          /\ IsSpace(line[p + 5])
          /\ SkipSpace(line, p + 5) <= Len(line)
          /\ line[SkipSpace(line, p + 5)] \in 65..90

(* C20: a line that holds only the lowercase word "class" followed by a     *)
(* lowercase word, coming after a header line, is added to the description  *)
(* of that header's record and starts no record.                            *)
C20_LowercaseClass ==
    LET lines == split(input)
    IN  (/\ pc = "done"
         /\ Len(lines) = 2
         /\ Len(lines[1]) > 6
         /\ SubSeq(lines[1], 1, 6) = <<67, 108, 97, 115, 115, 32>>
         /\ matchClassPattern(lines[1]) # Null
         /\ IsLowercaseClassLine(lines[2]))
        => output = << [type |-> "Class",
                        name |-> Value(matchClassPattern(lines[1]))[1],
                        description |->
                            trim(Value(matchClassPattern(lines[1]))[2])
                            \o <<32>> \o trim(lines[2])] >>

\* A CSV row read as RFC 4180 reads it, from position i on: cur is the field
\* being read, quoted whether it began with a double quote, open whether
\* that quote is still open.  Yields the fields with their quoted flags.
RECURSIVE ParseCsvRow(_, _, _, _, _, _)
ParseCsvRow(row, i, open, quoted, cur, fields) ==
    IF i > Len(row)
    THEN Append(fields, [text |-> cur, quoted |-> quoted])
    ELSE IF open
         THEN IF row[i] # 34
              THEN ParseCsvRow(row, i + 1, TRUE, quoted, cur \o <<row[i]>>, fields)
              ELSE IF i < Len(row) /\ row[i + 1] = 34
                   THEN ParseCsvRow(row, i + 2, TRUE, quoted, cur \o <<34>>, fields)
                   ELSE ParseCsvRow(row, i + 1, FALSE, quoted, cur, fields)
         ELSE IF row[i] = 44
              THEN ParseCsvRow(row, i + 1, FALSE, FALSE, <<>>,
                               Append(fields, [text |-> cur, quoted |-> quoted]))
              ELSE IF row[i] = 34 /\ cur = <<>> /\ ~quoted
                   THEN ParseCsvRow(row, i + 1, TRUE, TRUE, cur, fields)
                   ELSE ParseCsvRow(row, i + 1, FALSE, quoted, cur \o <<row[i]>>, fields)

\* The last handler was downloadCSV and it created a download.
CsvDownloaded ==
    /\ download # Null
    /\ Value(download).handler = "downloadCSV"
    /\ Value(download).link # Null

(* C17: the CSV that downloadCSV exports has the header row                 *)
(* "Type,Name,Description" and then one row per record, in record order;    *)
(* each row reads back as three fields, the type unquoted, the name and the *)
(* description quoted, equal to the record's type, name and description.    *)
C17_CsvRows ==
    CsvDownloaded =>
        LET json == Value(jsonData[Value(download).e])
            rows == split(Value(Value(download).link).content)
        IN  /\ Len(rows) = Len(json) + 1
            /\ rows[1] = <<84, 121, 112, 101, 44, 78, 97, 109, 101, 44, 68, 101, 115, 99, 114, 105, 112, 116, 105, 111, 110>>
            /\ \A k \in DOMAIN json :
                  ParseCsvRow(rows[k + 1], 1, FALSE, FALSE, <<>>, <<>>)
                      = << [text |-> <<67, 108, 97, 115, 115>>, quoted |-> FALSE],
                           [text |-> json[k].name, quoted |-> TRUE],
                           [text |-> json[k].description, quoted |-> TRUE] >>

\* A CSV was exported for two records, one with a double quote and a comma
\* in its description.
C17_Witness ==
    /\ CsvDownloaded
    /\ LET json == Value(jsonData[Value(download).e])
       IN  /\ Len(json) = 2
           /\ \E j, k \in DOMAIN json[1].description :
                 json[1].description[j] = 34 /\ json[1].description[k] = 44

(* C18: a handler of a download button creates a download only when the    *)
(* jsonData of its extractor is a list with at least one record; while      *)
(* jsonData is null or empty it creates no link.                            *)
C18_DownloadGuard ==
    download # Null =>
        LET json == jsonData[Value(download).e]
        IN  (Value(download).link # Null)
                <=> (json # Null /\ Len(Value(json)) > 0)

\* A download button was clicked after a load that found no record.
C18_Witness ==
    /\ download # Null
    /\ Value(download).link = Null
    /\ jsonData[Value(download).e] = Some(<<>>)

(* C21: the records come in the order of their header lines, one record    *)
(* per header line: the n-th record carries the name of the n-th line       *)
(* classPattern matches, also when several header lines share a name.       *)
C21_HeaderOrder ==
    LET lines == split(input)
        H == HeaderLines(lines)
    IN  pc = "done" =>
            /\ Len(output) = Cardinality(H)
            /\ \A k \in H :
                  output[Cardinality({h \in H : h <= k})].name
                      = Value(matchClassPattern(lines[k]))[1]

\* Three records: two header lines share a name and a header line with
\* another name stands between or beside them.
C21_Witness ==
    /\ pc = "done"
    /\ Len(output) = 3
    /\ \E j, k \in DOMAIN output :
          j < k /\ output[j].name = output[k].name
    /\ output[1].name # output[3].name

\* Texts to put before and after a chunk.
Affixes ==
    { <<>>, <<120>>, <<32>>, <<10>>, <<57, 95>>,
      <<67, 108, 97, 115, 115, 32>>, <<65, 32, 32>> }
                                   \* "", "x", " ", "\n", "9_", "Class ", "A  "

(* C22: the relevance filter is monotonic: a text that containsRelevantText *)
(* accepts is still accepted with any text put before it and after it.      *)
C22_Monotonic ==
    (pc = "done" /\ output = TRUE) =>
        \A u, v \in Affixes : containsRelevantText(u \o input \o v)

\* A text that starts with the keyword was accepted.
C22_Witness ==
    /\ pc = "done"
    /\ output = TRUE
    /\ KeywordAt(input, 1)

\* A list without its k-th element.
Without(list, k) == SubSeq(list, 1, k - 1) \o SubSeq(list, k + 1, Len(list))

(* C23: a chunk that the filter keeps although none of its lines is a class *)
(* header does not change the result: the records stored for the buffer are *)
(* the records obtained from the kept chunks without that chunk.            *)
C23_FalsePositive ==
    (pc = "done" /\ output.json # Null) =>
        LET blocks == extractLoop(input, 0, <<>>)
        IN  \A k \in DOMAIN blocks :
                ~HasClassHeader(blocks[k]) =>
                    Value(output.json) = toStructuredJSON(join(Without(blocks, k)))

\* The k-th window of a buffer, k from 1: bytes [(k-1)*step, min(k*step, n)).
WindowOf(buffer, k) ==
    SubSeq(buffer, (k - 1) * step + 1, Min({k * step, Len(buffer)}))

WindowCount(buffer) == (Len(buffer) + step - 1) \div step

(* C24: extractText returns the decoded texts of the windows                *)
(* [i, min(i+16384, length)) that containsRelevantText accepts, in offset   *)
(* order, joined by one newline, and the empty string when none is          *)
(* accepted; the windows follow one another, cover every byte once and only *)
(* the last one may be shorter.                                             *)
C24_Windows ==
    pc = "done" =>
        LET n == WindowCount(input)
            texts == [k \in 1..n |-> decode(WindowOf(input, k))]
            accepted == SelectSeq(texts, containsRelevantText)
        IN  /\ output = joinBy(accepted, <<10>>)
            /\ accepted = <<>> => output = <<>>
            /\ concat([k \in 1..n |-> WindowOf(input, k)]) = input
            /\ \A k \in 1..(n - 1) : Len(WindowOf(input, k)) = step
            /\ n > 0 => Len(WindowOf(input, n)) \in 1..step

\* A buffer of three windows, the first and the third accepted, the second
\* not.
C24_Witness ==
    /\ pc = "done"
    /\ WindowCount(input) = 3
    /\ containsRelevantText(decode(WindowOf(input, 1)))
    /\ ~containsRelevantText(decode(WindowOf(input, 2)))
    /\ containsRelevantText(decode(WindowOf(input, 3)))
    /\ output # <<>>

\* The statuses a rejected load shows.
RejectedStatuses ==
    { InvalidFormat,
      showStatus(<<"Only .chm files are supported.">>, "error") }

(* C25: a step that ends with the status of a rejected load (wrong file     *)
(* name, or no ITSF signature) leaves jsonData, the preview and the         *)
(* download buttons as they were; and whatever a download button exports is *)
(* the export of the records of the file its extractor loaded last, also    *)
(* after later loads were rejected.                                         *)
C25_RejectedLoad ==
    /\ [][status' \in RejectedStatuses
            => UNCHANGED <<jsonData, jsonPreview, downloadButtons>>]_vars
    /\ [](download # Null /\ Value(download).link # Null =>
             LET d == Value(download)
                 last == loaded[d.e]
             IN  /\ last # Null
                 /\ LET records ==
                            toStructuredJSON(extractText(Files[Value(last)].buffer))
                    IN  Value(d.link).content =
                            IF d.handler = "downloadCSV"
                            THEN csvText(records) ELSE stringify(records))

\* After a load was rejected a download button still exported records.
C25_Witness ==
    /\ status = InvalidFormat
    /\ download # Null
    /\ Value(download).link # Null
    /\ jsonPreview = jsonData[Value(download).e]
    /\ downloadButtons

(* C26: once the file selected last has been loaded, the records of its     *)
(* extractor change only after another file is selected: a read that was    *)
(* started earlier and completes later does not replace them.               *)
C26_LatestWins ==
    [][\A e \in Extractors, f \in FileIds :
          (selected = Some(<<e, f>>) /\ loaded[e] = Some(f) /\ selected' = selected)
              => (loaded'[e] = loaded[e] /\ jsonData'[e] = jsonData[e])]_vars

(* C27: the result a convertFile run stores in convertedData names, in its  *)
(* metadata and in the download filename, the file whose bytes the run read *)
(* and uses the format that was selected when the run started, also when    *)
(* another file or format is selected while the run waits for the reader.   *)
C27_ResultOfItsRun ==
    [][converter'.convertedData # converter.convertedData =>
          \E run \in converter.runs \ converter'.runs :
              LET convertedData == Value(converter'.convertedData)
                  metadata      == convertedData.content.metadata
                  file          == ConverterFiles[run.file]
              IN  /\ convertedData.content.htmlContent = Extractions[run.file].value
                  /\ metadata.originalFile = file.name
                  /\ metadata.fileSize = file.size
                  /\ metadata.format = run.format
                  /\ convertedData.type = MimeType(run.format)
                  /\ convertedData.filename =
                         sanitizeFilename(replaceFirst(file.name, <<46, 99, 104, 109>>, <<>>))
                         \o <<95, 97, 112, 105, 95, 100, 111, 99, 115>> \o Extension(run.format)]_vars

(* C28: while a convertFile run is in progress the download button is       *)
(* hidden: the delayed callback of an earlier successful run does not show  *)
(* it during a later run.                                                   *)
C28_HiddenWhileConverting ==
    converter.runs # {} => converter.downloadBtn = "none"

(* C29: extractHTMLContent keeps an entry or drops it by the entry's own    *)
(* content: the contents returned for a list of entries are those returned  *)
(* for each entry alone, in order, so that entries of identical content are *)
(* all kept or all dropped.                                                 *)
C29_EntryAlone ==
    pc = "done" =>
        output = concat([k \in DOMAIN input.entries |->
                            extractHTMLContent([entries |-> <<input.entries[k]>>])])

\* The directory named by the header of the buffer lies inside the buffer.
DirectoryInside(buffer) ==
    /\ Len(buffer) >= 56
    /\ U32LE(buffer, 48) <= Len(buffer)
    /\ U32LE(buffer, 48) + U32LE(buffer, 52) <= Len(buffer)

(* C30: parseCHMFile terminates.  Each iteration of the directory scan      *)
(* reads an entry length inside the buffer and moves the offset forward, by *)
(* 4 when the length is zero or larger than the directory and by the length *)
(* otherwise; the loop makes at most directoryLength iterations; and a call *)
(* whose directory does not lie inside the buffer ends with an error before *)
(* the scan.                                                                *)
C30_Terminates ==
    /\ <>(pc \in {"done", "thrown"})
    /\ [][pc = "while" /\ output' # output =>
             LET at          == Value(output).directoryOffset + Value(output).offset
                 entryLength == U32LE(input, at)
             IN  /\ at + 4 <= Len(input)
                 /\ Value(output').offset > Value(output).offset
                 /\ Value(output').offset - Value(output).offset =
                        IF entryLength = 0 \/ entryLength > Value(output).directoryLength
                        THEN 4 ELSE entryLength]_vars
    /\ [](pc \in {"while", "done"} =>
             /\ DirectoryInside(input)
             /\ Value(output).iterations <= Value(output).directoryLength)
    /\ [](pc = "done" =>
             ~(Value(output).offset < Value(output).directoryLength - 8))

\* A scan of a directory inside the buffer has returned after two or more
\* iterations, at least one of which skipped four bytes and at least one of
\* which pushed an entry.
C30_Witness ==
    /\ pc = "done"
    /\ Value(output).iterations >= 2
    /\ Value(output).entries # <<>>
    /\ \E k \in 0..(Value(output).offset - 4) :
          U32LE(input, Value(output).directoryOffset + k) = 0

=============================================================================
